---- MODULE Spec2Model ----
(***************************************************************************)
(* A model of cyclic_data: cycle.py (segment detection and aggregation),   *)
(* filter.py (smoothen and the spline filters), global_filter.py           *)
(* (smooth_data and minimize) and yield_point.py.                          *)
(*                                                                         *)
(* Numbers.  numpy floats are modelled as fixed-point integers in units of *)
(* half of 1e-6, so 1.0 is One and the tolerance 1e-6 is tol = 2 units.    *)
(* Every input sample is an even number of units, which makes              *)
(* (a + b) / 2.0 exact.  Arithmetic is exact: floating-point rounding of   *)
(* a difference that equals the tolerance is outside the model.            *)
(* minimize and yield_point.py divide, so their floats are exact rationals  *)
(* with inf and nan (see the section of minimize).                         *)
(*                                                                         *)
(* Indices.  Sample indices are the 0-based numbers the code uses; a       *)
(* Python list or array is a TLA+ sequence, so Python's s[i] is s[i + 1].  *)
(***************************************************************************)
EXTENDS Integers, Sequences, FiniteSets, TLC

VARIABLES
    call,            \* the function of cycle.py that was called
    test_data,       \* the test_data argument: channel name -> array
    num_per_cycle,   \* argument of get_pv_inds / get_pv_inds_change
    num_ind_skip,    \* argument of get_pv_inds
    min_change,      \* argument of get_pv_inds_change
    change_fun,      \* argument of get_pv_inds_change: "const_one" or "any"
    pc,              \* position in the called code
    pv_inds,         \* the groups of boundary indices
    ch_ind,          \* get_pv_inds_change: local ch_ind
    i_old,           \* get_pv_inds_change: local i_old
    i_ind,           \* get_pv_inds_change: local i_ind
    icycle,          \* get_pv_inds_change: local icycle
    not_done,        \* get_pv_inds_change: local not_done
    evals,           \* history: the evaluations of change_fun, in order
    qty,             \* argument of get_segment_values
    inds1,           \* get_segments: start indices per segment type
    inds2,           \* get_segments: end indices per segment type
    segment_data,    \* result of get_segment_values
    error,           \* the exception that ended the call, or "none"
    filter_functions,  \* smoothen: argument, one function or a dict of them
    keys,            \* smoothen: argument and local keys
    fdict,           \* smoothen: local fdict, an ordered dict as (key, function) pairs
    inds,            \* smoothen: local inds
    islice,          \* smoothen: position of the outer loop in zip(inds[:-1], inds[1:])
    ipair,           \* smoothen: position of the inner loop in zip(keys, fdict)
    test_data_smooth,  \* smoothen: local and result test_data_smooth
    shared,          \* smoothen: channels whose array test_data_smooth shares with test_data
    filter_calls,    \* history: the calls of filter functions, in order
    smoothen_args,   \* history: test_data and keys as the caller passed them
    spline_args,     \* filter functions: the arguments t, v, degree, num_knots, t_pred
    sp,              \* the Spline object: degree, knot_vector, coefficients, fitted
    vf,              \* the array the last eval or filter function returned
    sp_calls,        \* history: the calls of sp.fit and sp.eval and how they ended
    data,            \* smooth_data: the caller's mapping data and its arrays
    sdata,           \* smooth_data: local and result sdata
    views,           \* smooth_data: keys whose sdata array is a view of the data array
    fit_matrix,      \* smooth_data: local fit_matrix, by its shape
    _keys,           \* smooth_data: local _keys
    ikey,            \* smooth_data: position of the loop over _keys
    smooth_data_args,  \* smooth_data: the arguments as the caller passed them
    minimize_args,   \* minimize: objective_function, t0, dt_init, dt_max, dt_change_tol, max_iter
    dt_mat,          \* minimize: local dt_mat, 4 rows of one offset per coordinate
    fe_mat,          \* minimize: local fe_mat, 4 rows of one error per coordinate
    dt_change,       \* minimize: local dt_change
    n_iter,          \* minimize: the number of loop iterations that were started
    err_save,        \* minimize: local err_save; its last entry is the local e
    opt_cycle_time,  \* the vector minimize returned
    yield_args,      \* yield_point.py: the arguments of the called function
    yield_info,      \* get_yield: local and result yield_info
    iseg,            \* get_yield: local iseg
    icyc,            \* get_yield: position of the inner loop in zip(ind1, ind2)
    yp_return,       \* the value get_compliance or get_yield_point returned
    yield_log        \* history: the indices get_yield used for each segment

cycleVars == <<call, test_data, num_per_cycle, num_ind_skip, min_change,
               change_fun, pc, pv_inds, ch_ind, i_old, i_ind, icycle,
               not_done, evals, qty, inds1, inds2, segment_data, error>>

smoothVars == <<filter_functions, keys, fdict, inds, islice, ipair,
                test_data_smooth, shared, filter_calls, smoothen_args>>

splineVars == <<spline_args, sp, vf, sp_calls>>

globalVars == <<data, sdata, views, fit_matrix, _keys, ikey, smooth_data_args>>

minimizeVars == <<minimize_args, dt_mat, fe_mat, dt_change, n_iter, err_save,
                  opt_cycle_time>>

yieldVars == <<yield_args, yield_info, iseg, icyc, yp_return, yield_log>>

vars == <<cycleVars, smoothVars, splineVars, globalVars, minimizeVars,
          yieldVars>>

----------------------------------------------------------------------------
(* Bounds of the generated inputs *)

MaxN == 5        \* longest generated step counter
MaxK == 3        \* largest num_per_cycle
MaxSkip == 2     \* largest num_ind_skip
MaxInd == 3      \* largest index in a generated boundary group
MaxGroups == 2   \* most groups in a generated family of boundary groups

----------------------------------------------------------------------------
(* Numbers and Python sequence operations *)

tol == 2
One == 1000000 * tol

Min(a, b) == IF a < b THEN a ELSE b

\* s[a:] and s[:b] for 0 <= a, 0 <= b
PyFrom(s, a) == SubSeq(s, a + 1, Len(s))
PyTo(s, b) == SubSeq(s, 1, Min(b, Len(s)))
\* s[a:b] for 0 <= a, 0 <= b
PySlice(s, a, b) == SubSeq(s, a + 1, Min(b, Len(s)))
\* s[i::k] for 0 <= i, k >= 1
PyStride(s, i, k) ==
    [n \in 1..(IF Len(s) > i THEN (Len(s) - i + k - 1) \div k ELSE 0)
        |-> s[i + (n - 1) * k + 1]]

Range(s) == {s[n] : n \in 1..Len(s)}
Tail0(s) == IF s = << >> THEN << >> ELSE Tail(s)
StrictlyIncreasing(s) == \A m, n \in 1..Len(s) : m < n => s[m] < s[n]

----------------------------------------------------------------------------
(* cycle.py: get_stp_change_inds, get_pv_inds *)

\* test_data['stp'][1:] - test_data['stp'][:-1]
stp_diff(stp) == [j \in 1..(Len(stp) - 1) |-> stp[j + 1] - stp[j]]

\* np.where(d > t)[0]: the 0-based positions of d that exceed t, ascending
np_where_gt(d, t) ==
    SelectSeq([j \in 1..Len(d) |-> j - 1], LAMBDA j : d[j + 1] > t)

get_stp_change_inds_drop0(td) ==
    LET w == np_where_gt(stp_diff(td["stp"]), tol)
    IN  [n \in 1..Len(w) |-> w[n] + 1]

get_stp_change_inds_ge(td) ==
    LET d == stp_diff(td["stp"])
        w == SelectSeq([j \in 1..Len(d) |-> j - 1], LAMBDA j : d[j + 1] >= tol)
    IN  <<0>> \o [n \in 1..Len(w) |-> w[n] + 1]

get_stp_change_inds(td) ==
    LET w == np_where_gt(stp_diff(td["stp"]), tol)
    IN  <<0>> \o [n \in 1..Len(w) |-> w[n] + 1]

get_pv_inds_shifted(td, npc, skip) ==
    LET c == PyFrom(get_stp_change_inds(td), skip)
    IN  [i \in 1..npc |-> PyStride(c, i, npc)]

get_pv_inds(td, npc, skip) ==
    LET c == PyFrom(get_stp_change_inds(td), skip)
    IN  [i \in 1..npc |-> PyStride(c, i - 1, npc)]

----------------------------------------------------------------------------
(* cycle.py: get_segments, get_segment_values *)

get_segments_inds2_noshift(pv) == Tail(pv) \o << pv[1] >>

\* line 185-186: inds2 = [pv[:] for pv in pv_inds[1:]] + [pv_inds[0][1:]]
get_segments_inds2(pv) == Tail(pv) \o << PyFrom(pv[1], 1) >>

get_segments_inds1_notrunc(pv) == pv

\* line 190: inds1 = [pv[:len(i2)] for pv, i2 in zip(pv_inds, inds2)]
get_segments_inds1(pv) ==
    LET i2 == get_segments_inds2(pv)
    IN  [i \in 1..Len(pv) |-> PyTo(pv[i], Len(i2[i]))]

average(peak, valley) == (peak + valley) \div 2
difference(v1, v2) == v2 - v1

operation(op, a, b) ==
    IF op = "average" THEN average(a, b) ELSE difference(a, b)

\* arr[idx] for a list of indices idx (numpy integer-array indexing)
np_take(arr, idx) == [n \in 1..Len(idx) |-> arr[idx[n] + 1]]
InBounds(arr, idx) == \A n \in 1..Len(idx) : idx[n] < Len(arr)

\* numpy broadcasting of two 1-d arrays
np_broadcastable(a, b) == Len(a) = Len(b) \/ Len(a) = 1 \/ Len(b) = 1
np_elementwise(op, a, b) ==
    [k \in 1..(IF Len(a) = 1 THEN Len(b) ELSE Len(a))
        |-> operation(op, a[IF Len(a) = 1 THEN 1 ELSE k],
                          b[IF Len(b) = 1 THEN 1 ELSE k])]

\* The exception raised while computing entry i of channel q[n], or "none":
\* test_data[qt][i1] and test_data[qt][i2] raise IndexError on an index past
\* the array, operation raises ValueError when the two arrays do not broadcast
pair_error(td, q, i1, i2, n, i) ==
    IF ~InBounds(td[q[n]], i1[i]) \/ ~InBounds(td[q[n]], i2[i])
    THEN "IndexError"
    ELSE IF ~np_broadcastable(i1[i], i2[i]) THEN "ValueError" ELSE "none"

\* the exception get_segment_values raises on (td, q, i1, i2), or "none":
\* that of the first failing entry in the order of the two loops
segment_values_error(td, q, i1, i2) ==
    LET steps == {<<n, i>> \in (1..Len(q)) \X (1..Len(i1)) :
                     pair_error(td, q, i1, i2, n, i) # "none"}
        before(a, b) == a[1] < b[1] \/ (a[1] = b[1] /\ a[2] <= b[2])
    IN  IF steps = {} THEN "none"
        ELSE LET f == CHOOSE a \in steps : \A b \in steps : before(a, b)
             IN  pair_error(td, q, i1, i2, f[1], f[2])

\* segment_data[qt] for the channels qt of q
segment_values(td, q, i1, i2, op) ==
    [qt \in Range(q) |->
        [i \in 1..Len(i1) |->
            np_elementwise(op, np_take(td[qt], i1[i]), np_take(td[qt], i2[i]))]]

----------------------------------------------------------------------------
(* Inputs *)

Tenth == One \div 10

\* The generated step counters start at 0 and change from sample to sample
\* by -2e-6, 0, 1e-6 (the tolerance itself) or 2e-6
StpIncrements == {0 - 2 * tol, 0, tol, 2 * tol}

RECURSIVE Accumulate(_, _)
Accumulate(first, incs) ==
    IF incs = << >> THEN << first >>
    ELSE << first >> \o Accumulate(first + Head(incs), Tail(incs))

\* test_cycle.py: cycles
TestCycles ==
    << 0, One, One, One, 2 * One, 2 * One, 21 * Tenth, 21 * Tenth, 21 * Tenth,
       23 * Tenth, 10 * One, 12 * One, 12 * One, 14 * One >>

StpInputs ==
    {Accumulate(0, incs) : incs \in UNION {[1..n -> StpIncrements] : n \in 0..(MaxN - 1)}}
        \cup {TestCycles}

\* test_get_mid_values and test_get_diff_values
TestDataMid == [x \in {"x"} |-> [i \in 1..10 |-> i * One]]
TestPvMid == << <<1, 4, 9>>, <<2, 7>> >>
TestDataDiff ==
    [c \in {"x", "y"} |->
        IF c = "x" THEN [i \in 1..11 |-> (i - 1) * One]
        ELSE [i \in 1..11 |-> << 0, 2, 4, 8, 1, 2, 5, 2, 3, 4, 10 >>[i] * One]]
TestPvDiff == << <<1, 5, 8>>, <<3, 7, 9>> >>

RECURSIVE SortedSeq(_)
SortedSeq(S) ==
    IF S = {} THEN << >>
    ELSE LET m == CHOOSE x \in S : \A y \in S : x <= y
         IN  <<m>> \o SortedSeq(S \ {m})

\* families of boundary groups, each group strictly increasing
Groups == {SortedSeq(S) : S \in SUBSET (0..MaxInd)}
GroupFamilies ==
    UNION {[1..k -> Groups] : k \in 1..MaxGroups} \cup {TestPvMid, TestPvDiff}

\* the values change_fun can return: the test's function returns 1.0; an
\* arbitrary function returns a value at the threshold or above it
change_fun_values(cf, mc) == IF cf = "const_one" THEN {One} ELSE {mc, 2 * mc}

\* smoothen is not running
IdleSmooth ==
    /\ filter_functions = << >> /\ keys = << >> /\ fdict = << >>
    /\ inds = << >> /\ islice = 0 /\ ipair = 0
    /\ test_data_smooth = << >> /\ shared = {} /\ filter_calls = << >>
    /\ smoothen_args = << >>

\* no Spline object exists
IdleSpline ==
    spline_args = << >> /\ sp = << >> /\ vf = << >> /\ sp_calls = << >>

\* smooth_data is not running
IdleGlobal ==
    /\ data = << >> /\ sdata = << >> /\ views = {} /\ fit_matrix = << >>
    /\ _keys = << >> /\ ikey = 0 /\ smooth_data_args = << >>

\* minimize is not running
IdleMinimize ==
    /\ minimize_args = << >> /\ dt_mat = << >> /\ fe_mat = << >>
    /\ dt_change = << >> /\ n_iter = 0 /\ err_save = << >>
    /\ opt_cycle_time = << >>

\* yield_point.py is not running
IdleYield ==
    /\ yield_args = << >> /\ yield_info = << >> /\ iseg = 0 /\ icyc = 0
    /\ yp_return = << >> /\ yield_log = << >>

\* what a step of cycle.py leaves alone
CycleFrame ==
    UNCHANGED <<smoothVars, splineVars, globalVars, minimizeVars, yieldVars>>

IdleLocals ==
    /\ ch_ind = << >> /\ i_old = 0 /\ i_ind = 0 /\ icycle = 0
    /\ not_done = FALSE /\ evals = << >>
    /\ inds1 = << >> /\ inds2 = << >> /\ segment_data = << >>
    /\ error = "none"

InitPv ==
    /\ call = "get_pv_inds"
    /\ test_data \in {[c \in {"stp"} |-> s] : s \in StpInputs}
    /\ num_per_cycle \in 1..MaxK
    /\ num_ind_skip \in 0..MaxSkip
    /\ min_change = 0 /\ change_fun = "none"
    /\ pc = "call" /\ pv_inds = << >> /\ qty = <<"stp">>
    /\ IdleLocals

InitChange ==
    /\ call = "get_pv_inds_change"
    /\ test_data \in {[c \in {"stp"} |-> s] : s \in StpInputs}
    /\ num_per_cycle \in 1..MaxK
    /\ num_ind_skip = 0
    /\ \E p \in {<<"const_one", Tenth>>, <<"const_one", One>>, <<"any", Tenth>>} :
          change_fun = p[1] /\ min_change = p[2]
    /\ pc = "call" /\ pv_inds = << >> /\ qty = <<"stp">>
    /\ IdleLocals

InitSegments ==
    /\ \/ call = "get_mid_values" /\ test_data = TestDataMid /\ qty = <<"x">>
       \/ call = "get_diff_values" /\ test_data = TestDataDiff
          /\ qty = <<"y", "x">>
    /\ pv_inds \in GroupFamilies
    /\ num_per_cycle = Len(pv_inds)
    /\ num_ind_skip = 0 /\ min_change = 0 /\ change_fun = "none"
    /\ pc = "have_pv_inds"
    /\ IdleLocals

Init ==
    /\ InitPv \/ InitChange \/ InitSegments
    /\ IdleSmooth /\ IdleSpline /\ IdleGlobal /\ IdleMinimize /\ IdleYield

----------------------------------------------------------------------------
(* Steps of cycle.py *)

\* get_pv_inds, lines 23-28
GetPvInds ==
    /\ pc = "call" /\ call = "get_pv_inds"
    /\ pv_inds' = get_pv_inds(test_data, num_per_cycle, num_ind_skip)
    /\ pc' = "have_pv_inds"
    /\ UNCHANGED <<call, test_data, num_per_cycle, num_ind_skip, min_change,
                   change_fun, ch_ind, i_old, i_ind, icycle, not_done, evals,
                   qty, inds1, inds2, segment_data, error>>
    /\ CycleFrame

\* get_pv_inds_change, lines 69-77
ChangeInit ==
    /\ pc = "call" /\ call = "get_pv_inds_change"
    /\ ch_ind' = get_stp_change_inds(test_data)
    /\ not_done' = TRUE
    /\ pv_inds' = [i \in 1..num_per_cycle |->
                      IF i = 1 THEN << ch_ind'[1] >> ELSE << >>]
    /\ i_old' = ch_ind'[1]
    /\ i_ind' = 1
    /\ icycle' = 1
    /\ pc' = "while_not_done"
    /\ UNCHANGED <<call, test_data, num_per_cycle, num_ind_skip, min_change,
                   change_fun, evals, qty, inds1, inds2, segment_data, error>>
    /\ CycleFrame

\* line 78: while not_done; line 90: return pv_inds
ChangeOuter ==
    /\ pc = "while_not_done"
    /\ pc' = IF not_done THEN "while_icycle" ELSE "have_pv_inds"
    /\ UNCHANGED <<call, test_data, num_per_cycle, num_ind_skip, min_change,
                   change_fun, pv_inds, ch_ind, i_old, i_ind, icycle, not_done,
                   evals, qty, inds1, inds2, segment_data, error>>
    /\ CycleFrame

\* line 79: while icycle < num_per_cycle; line 88: icycle = 0
ChangeInner ==
    /\ pc = "while_icycle"
    /\ IF icycle < num_per_cycle
       THEN pc' = "body" /\ icycle' = icycle
       ELSE pc' = "while_not_done" /\ icycle' = 0
    /\ UNCHANGED <<call, test_data, num_per_cycle, num_ind_skip, min_change,
                   change_fun, pv_inds, ch_ind, i_old, i_ind, not_done, evals,
                   qty, inds1, inds2, segment_data, error>>
    /\ CycleFrame

\* line 80: ch_ind[i_ind] past the end of ch_ind raises IndexError
ChangeIndexError ==
    /\ pc = "body"
    /\ i_ind >= Len(ch_ind)
    /\ error' = "IndexError"
    /\ pc' = "raised"
    /\ UNCHANGED <<call, test_data, num_per_cycle, num_ind_skip, min_change,
                   change_fun, pv_inds, ch_ind, i_old, i_ind, icycle, not_done,
                   evals, qty, inds1, inds2, segment_data>>
    /\ CycleFrame

\* the candidate is accepted when change_fun exceeds min_change (line 80)
accepts_ge(val, mc) == val >= mc
accepts(val, mc) == val > mc

\* lines 80-88: one pass of the inner loop body; the break of line 87 goes
\* on to line 88
ChangeBody ==
    /\ pc = "body"
    /\ i_ind < Len(ch_ind)
    /\ \E val \in change_fun_values(change_fun, min_change) :
         LET cand == ch_ind[i_ind + 1]
             acc == accepts(val, min_change)
         IN  /\ evals' = Append(evals, [i1 |-> i_old, i2 |-> cand,
                                        value |-> val, slot |-> icycle])
             /\ pv_inds' = IF acc
                           THEN [pv_inds EXCEPT ![icycle + 1] =
                                                    Append(@, cand)]
                           ELSE pv_inds
             /\ i_old' = IF acc THEN cand ELSE i_old
             /\ i_ind' = i_ind + 1
             /\ IF i_ind + 1 >= Len(ch_ind)
                THEN not_done' = FALSE /\ icycle' = 0 /\ pc' = "while_not_done"
                ELSE /\ not_done' = not_done
                     /\ icycle' = IF acc THEN icycle + 1 ELSE icycle
                     /\ pc' = "while_icycle"
    /\ UNCHANGED <<call, test_data, num_per_cycle, num_ind_skip, min_change,
                   change_fun, ch_ind, qty, inds1, inds2, segment_data, error>>
    /\ CycleFrame

\* get_segments, lines 185-192
GetSegments ==
    /\ pc = "have_pv_inds"
    /\ inds2' = get_segments_inds2(pv_inds)
    /\ inds1' = get_segments_inds1(pv_inds)
    /\ pc' = "have_segments"
    /\ UNCHANGED <<call, test_data, num_per_cycle, num_ind_skip, min_change,
                   change_fun, pv_inds, ch_ind, i_old, i_ind, icycle, not_done,
                   evals, qty, segment_data, error>>
    /\ CycleFrame

\* the operation of the caller: get_mid_values passes average and
\* get_diff_values passes difference
call_operation(c) == IF c = "get_mid_values" THEN "average" ELSE "difference"

\* get_segment_values, lines 164-168
SegmentValues ==
    /\ pc = "have_segments"
    /\ call \in {"get_mid_values", "get_diff_values"}
    /\ LET e == segment_values_error(test_data, qty, inds1, inds2)
       IN  IF e = "none"
           THEN /\ segment_data' = segment_values(test_data, qty, inds1, inds2,
                                                  call_operation(call))
                /\ pc' = "done"
                /\ error' = error
           ELSE /\ error' = e
                /\ pc' = "raised"
                /\ segment_data' = segment_data
    /\ UNCHANGED <<call, test_data, num_per_cycle, num_ind_skip, min_change,
                   change_fun, pv_inds, ch_ind, i_old, i_ind, icycle, not_done,
                   evals, qty, inds1, inds2>>
    /\ CycleFrame

Next ==
    \/ GetPvInds
    \/ ChangeInit
    \/ ChangeOuter
    \/ ChangeInner
    \/ ChangeIndexError
    \/ ChangeBody
    \/ GetSegments
    \/ SegmentValues

Spec == Init /\ [][Next]_vars

----------------------------------------------------------------------------
(* Claims about get_pv_inds and get_stp_change_inds *)

Stp == test_data["stp"]
PvReturned == call = "get_pv_inds" /\ pc # "call"

\* position p (0-based) of list is entry p div k of group p mod k, and the
\* groups hold nothing else
RoundRobin(groups, list, k) ==
    /\ Len(groups) = k
    /\ \A g \in 1..k :
          Len(groups[g]) = Cardinality({p \in 0..(Len(list) - 1) : p % k = g - 1})
    /\ \A p \in 0..(Len(list) - 1) :
          groups[(p % k) + 1][(p \div k) + 1] = list[p + 1]

\* C1: get_pv_inds returns exactly K groups, pairwise disjoint, each strictly
\* increasing, whose union is the boundary list without its first
\* num_ind_skip entries; with fewer than K boundaries left the trailing
\* groups are empty, and no error is raised.
C1_GroupsPartitionBoundaries ==
    PvReturned =>
        LET rest == PyFrom(get_stp_change_inds(test_data), num_ind_skip)
        IN  /\ error = "none"
            /\ Len(pv_inds) = num_per_cycle
            /\ \A g, h \in 1..Len(pv_inds) :
                  g # h => Range(pv_inds[g]) \cap Range(pv_inds[h]) = {}
            /\ \A g \in 1..Len(pv_inds) : StrictlyIncreasing(pv_inds[g])
            /\ UNION {Range(pv_inds[g]) : g \in 1..Len(pv_inds)} = Range(rest)
            /\ \A g \in 1..Len(pv_inds) : g > Len(rest) => pv_inds[g] = << >>

C1_Witness ==
    /\ PvReturned
    /\ num_ind_skip > 0
    /\ num_per_cycle = 3
    /\ Len(pv_inds[1]) = 1 /\ Len(pv_inds[2]) = 1 /\ pv_inds[3] = << >>

----------------------------------------------------------------------------
(* Claims about get_pv_inds_change *)

InChange == call = "get_pv_inds_change" /\ pc # "call"
Exceeds(e) == e.value > min_change

\* the first boundary, then the candidates whose change exceeded min_change
AcceptedList ==
    LET a == SelectSeq(evals, Exceeds)
    IN  << ch_ind[1] >> \o [k \in 1..Len(a) |-> a[k].i2]

\* the index last accepted before evaluation k
LastAcceptedBefore(k) ==
    LET prev == {j \in 1..(k - 1) : Exceeds(evals[j])}
    IN  IF prev = {} THEN ch_ind[1]
        ELSE evals[CHOOSE j \in prev : \A m \in prev : m <= j].i2

\* C4: in get_pv_inds_change a candidate boundary is appended only if
\* change_fun(data, last accepted index, candidate) > min_change; the last
\* accepted index starts at the first boundary and changes only on
\* acceptance; a rejected candidate takes no group slot, so the accepted
\* boundaries fill the groups in strict round-robin order and group lengths
\* never differ by more than one.
C4_AcceptOnlyOnChange ==
    InChange =>
        /\ RoundRobin(pv_inds, AcceptedList, num_per_cycle)
        /\ \A k \in 1..Len(evals) : evals[k].i1 = LastAcceptedBefore(k)
        /\ i_old = AcceptedList[Len(AcceptedList)]
        /\ \A g, h \in 1..Len(pv_inds) :
              /\ Len(pv_inds[g]) - Len(pv_inds[h]) <= 1
              /\ g < h => Len(pv_inds[g]) >= Len(pv_inds[h])

C4_Witness ==
    /\ InChange /\ pc = "have_pv_inds"
    /\ num_per_cycle = 2
    /\ Len(evals) = 3
    /\ ~Exceeds(evals[1]) /\ Exceeds(evals[2]) /\ Exceeds(evals[3])
    /\ evals[2].i1 = ch_ind[1]
    /\ Len(pv_inds[1]) = 2 /\ Len(pv_inds[2]) = 1

\* change_fun exceeds min_change on every pair of indices
AlwaysExceeds == change_fun = "const_one" /\ One > min_change

\* C5 as stated: when change_fun exceeds min_change on every pair,
\* get_pv_inds_change returns the groups of get_pv_inds with
\* num_ind_skip = 0, for every step counter and every K >= 1.
C5_AsStated ==
    (call = "get_pv_inds_change" /\ AlwaysExceeds
        /\ pc \in {"raised", "have_pv_inds"}) =>
        /\ error = "none"
        /\ pv_inds = get_pv_inds(test_data, num_per_cycle, 0)

\* where get_pv_inds_change does return, the groups agree
C5_AgreeWhenReturned ==
    (call = "get_pv_inds_change" /\ AlwaysExceeds /\ pc = "have_pv_inds") =>
        pv_inds = get_pv_inds(test_data, num_per_cycle, 0)

\* get_pv_inds_change raises exactly on a counter without a step change
C5_RaisesOnlyWithoutChange ==
    (call = "get_pv_inds_change" /\ pc \in {"raised", "have_pv_inds"}) =>
        (error = "IndexError" <=> Len(get_stp_change_inds(test_data)) = 1)

----------------------------------------------------------------------------
(* Claims about get_segments and get_segment_values *)

InSegmentValues == call \in {"get_mid_values", "get_diff_values"}

\* the end indices of segment type i (1-based): group i + 1, and for the
\* last type group 0 without its first entry
EndGroup(pv, i) == IF i < Len(pv) THEN pv[i + 1] ELSE Tail0(pv[1])

\* the samples of channel qt at the n-th start and end of segment type i
StartValue(qt, i, n) == test_data[qt][pv_inds[i][n] + 1]
EndValue(qt, i, n) == test_data[qt][EndGroup(pv_inds, i)[n] + 1]

\* C6: get_segment_values pairs the n-th index of group i with the n-th
\* index of group i + 1, and for the last segment type the n-th index of
\* group K - 1 with the (n+1)-th index of group 0; get_mid_values returns
\* (x[start] + x[end]) / 2 and get_diff_values x[end] - x[start] for every
\* pair and every requested channel; x = [1..10] with groups
\* [[1,4,9],[2,7]] gives the midpoints [2.5, 6.5] and [4.0, 9.0].
\* (Stated for the segment types whose end list is no longer than the start
\* group; the other types are the case of C7.)
C6_SegmentPairing ==
    (InSegmentValues /\ pc = "done") =>
        /\ DOMAIN segment_data = Range(qty)
        /\ \A qt \in Range(qty) :
              /\ Len(segment_data[qt]) = Len(pv_inds)
              /\ \A i \in 1..Len(pv_inds) :
                    LET out == segment_data[qt][i]
                        pairs == Len(EndGroup(pv_inds, i))
                    IN  pairs <= Len(pv_inds[i]) =>
                          /\ Len(out) = pairs
                          /\ \A n \in 1..pairs :
                                IF call = "get_mid_values"
                                THEN 2 * out[n] =
                                        StartValue(qt, i, n) + EndValue(qt, i, n)
                                ELSE out[n] =
                                        EndValue(qt, i, n) - StartValue(qt, i, n)
        /\ (call = "get_mid_values" /\ pv_inds = TestPvMid) =>
              segment_data["x"] =
                 << << 5 * (One \div 2), 13 * (One \div 2) >>,
                    << 4 * One, 9 * One >> >>

C6_Witness ==
    /\ call = "get_mid_values" /\ pc = "done"
    /\ pv_inds = TestPvMid
    /\ Len(segment_data["x"][2]) = 2

\* C7 as stated: for arbitrary boundary groups get_segments truncates the
\* start list and the end list of every segment type to the shorter of the
\* two, and get_segment_values returns for each segment type an array with
\* one entry per valid (start, end) pair and never fails, also when the end
\* group is longer than the start group.
C7_AsStated ==
    (InSegmentValues /\ pc \in {"have_segments", "done", "raised"}) =>
        /\ \A i \in 1..Len(pv_inds) :
              LET pairs == Min(Len(pv_inds[i]), Len(EndGroup(pv_inds, i)))
              IN  /\ Len(inds1[i]) = pairs
                  /\ Len(inds2[i]) = pairs
                  /\ pc = "done" =>
                        \A qt \in Range(qty) : Len(segment_data[qt][i]) = pairs
        /\ pc # "raised"

\* the start lists are truncated, the end lists are not
C7_OnlyStartsTruncated ==
    (InSegmentValues /\ pc \in {"have_segments", "done", "raised"}) =>
        \A i \in 1..Len(pv_inds) :
            /\ Len(inds1[i]) = Min(Len(pv_inds[i]), Len(EndGroup(pv_inds, i)))
            /\ inds2[i] = EndGroup(pv_inds, i)

FromDetector == call \in {"get_pv_inds", "get_pv_inds_change"}

\* C8: for the groups get_pv_inds or get_pv_inds_change returns, get_segments
\* gives every segment type a start list and an end list of equal length,
\* and every paired start index is less than its end index.
C8_DetectedSegmentsOrdered ==
    (FromDetector /\ pc = "have_segments") =>
        /\ Len(inds1) = num_per_cycle
        /\ Len(inds2) = num_per_cycle
        /\ \A i \in 1..num_per_cycle :
              /\ Len(inds1[i]) = Len(inds2[i])
              /\ \A n \in 1..Len(inds1[i]) : inds1[i][n] < inds2[i][n]

C8_Witness ==
    /\ call = "get_pv_inds_change" /\ pc = "have_segments"
    /\ num_per_cycle = 3
    /\ \E k \in 1..Len(evals) : ~Exceeds(evals[k])
    /\ Len(pv_inds[1]) = 2
    /\ Len(inds1[3]) = 1
    /\ Len(inds1[1]) = 1

----------------------------------------------------------------------------
(* filter.py: smoothen *)

\* A sample of an array handed to smoothen is a raw number, or the p-th value
\* that filter function f returned for the time slice t and value slice v.
\* What a filter computes is left uninterpreted; dummy_filter returns v.
Raw(x) == [f |-> "raw", t |-> << >>, v |-> << x >>, p |-> 1]
Number(s) == IF s.f = "raw" THEN s.v[1] ELSE 0 - 1
Numbers(arr) == [n \in 1..Len(arr) |-> Number(arr[n])]

\* test_filters.py: dummy_filter; filter.py: polynomial, cubic_spline
FilterNames == {"dummy_filter", "polynomial", "cubic_spline"}

\* the exception of filter f on the slices t, v: np.polyfit rejects an empty
\* x (line 62), get_knots reads t[0] (line 90)
filter_error(f, t, v) ==
    IF Len(t) = 0 /\ f = "polynomial" THEN "TypeError"
    ELSE IF Len(t) = 0 /\ f = "cubic_spline" THEN "IndexError"
    ELSE "none"

\* vf = filter_function(t, v)
filter_fun(f, t, v) ==
    IF f = "dummy_filter" THEN v
    ELSE [p \in 1..Len(v) |->
             [f |-> f, t |-> Numbers(t), v |-> Numbers(v), p |-> p]]

\* line 33: the copy shares no array with test_data
copy_shallow(td) == [data |-> td, shared |-> DOMAIN td]
copy_deepcopy(td) == [data |-> td, shared |-> {}]

RECURSIVE Flatten(_)
Flatten(pv) == IF pv = << >> THEN << >> ELSE Head(pv) \o Flatten(Tail(pv))

RECURSIVE np_sort(_)
np_sort(s) ==
    IF s = << >> THEN << >>
    ELSE LET k == CHOOSE i \in 1..Len(s) : \A j \in 1..Len(s) : s[i] <= s[j]
         IN  << s[k] >> \o np_sort(SubSeq(s, 1, k - 1) \o SubSeq(s, k + 1, Len(s)))

\* lines 46-48
smoothen_inds(pv) ==
    LET with0 == << 0 >> \o np_sort(Flatten(pv))
    IN  [with0 EXCEPT ![Len(with0)] = @ + 1]

\* the order in which test_data lists its channels
SmoothChannels == << "time", "stp", "vals", "val2" >>

\* lines 36-40
smoothen_keys(k, ff) ==
    IF k.none
    THEN [none |-> FALSE,
          list |-> IF ff.is_dict
                   THEN [n \in 1..Len(ff.items) |-> ff.items[n][1]]
                   ELSE SelectSeq(SmoothChannels,
                                  LAMBDA c : c \notin {"time", "stp"})]
    ELSE k

\* line 43
smoothen_fdict(k, ff) ==
    IF ff.is_dict THEN ff.items
    ELSE [n \in 1..Len(k.list) |-> << k.list[n], ff.fun >>]

\* d[key] of an ordered dict d
dict_get(d, key) == d[CHOOSE n \in 1..Len(d) : d[n][1] = key][2]
dict_keys(d) == {d[n][1] : n \in 1..Len(d)}

\* line 52-53: the filter applied at position n of zip(keys, fdict)
pair_filter(k, d, n) == dict_get(d, d[n][1])

\* arr[i0:i1] = out
SliceAssign(arr, i0, i1, out) ==
    [n \in 1..Len(arr) |-> IF n > i0 /\ n <= i1 THEN out[n - i0] ELSE arr[n]]

----------------------------------------------------------------------------
(* Inputs of smoothen *)

\* one array per channel, MaxInd + 1 samples, no number in two channels
SmoothTestData ==
    [c \in Range(SmoothChannels) |->
        [i \in 1..(MaxInd + 1) |->
            Raw(((CHOOSE n \in 1..Len(SmoothChannels) : SmoothChannels[n] = c)
                    * 100 + i - 1) * One)]]

\* boundary groups as the detectors return them: an ascending list of
\* indices dealt round robin
Deal(list, k) == [g \in 1..k |-> PyStride(list, g - 1, k)]
SmoothPvInputs ==
    {Deal(SortedSeq(S), k) : S \in SUBSET (0..MaxInd), k \in 1..MaxGroups}

NoKeys == [none |-> TRUE, list |-> << >>]
KeysArgs ==
    {NoKeys} \cup
    {[none |-> FALSE, list |-> l] :
        l \in {<<"vals">>, <<"val2">>, <<"vals", "val2">>, <<"val2", "vals">>,
               <<"absent">>}}

DictItems == {"vals", "val2"} \X FilterNames
FilterArgs ==
    {[is_dict |-> FALSE, items |-> << >>, fun |-> f] : f \in FilterNames}
    \cup {[is_dict |-> TRUE, items |-> << a >>, fun |-> "none"] : a \in DictItems}
    \cup {[is_dict |-> TRUE, items |-> << ab[1], ab[2] >>, fun |-> "none"] :
             ab \in {x \in DictItems \X DictItems : x[1][1] # x[2][1]}}

InitSmooth ==
    /\ call = "smoothen" /\ pc = "call" /\ error = "none"
    /\ test_data = SmoothTestData
    /\ pv_inds \in SmoothPvInputs
    /\ filter_functions \in FilterArgs
    /\ keys \in KeysArgs
    /\ smoothen_args = [test_data |-> test_data, keys |-> keys]
    /\ fdict = << >> /\ inds = << >> /\ islice = 0 /\ ipair = 0
    /\ test_data_smooth = << >> /\ shared = {} /\ filter_calls = << >>
    /\ num_per_cycle = Len(pv_inds) /\ num_ind_skip = 0
    /\ min_change = 0 /\ change_fun = "none" /\ qty = << >>
    /\ ch_ind = << >> /\ i_old = 0 /\ i_ind = 0 /\ icycle = 0
    /\ not_done = FALSE /\ evals = << >>
    /\ inds1 = << >> /\ inds2 = << >> /\ segment_data = << >>
    /\ IdleSpline /\ IdleGlobal /\ IdleMinimize /\ IdleYield

\* what a step of smoothen leaves alone
SmoothFrame ==
    UNCHANGED <<call, num_per_cycle, num_ind_skip, min_change, change_fun,
                pv_inds, ch_ind, i_old, i_ind, icycle, not_done, evals, qty,
                inds1, inds2, segment_data, filter_functions, smoothen_args,
                splineVars, globalVars, minimizeVars, yieldVars>>

----------------------------------------------------------------------------
(* Steps of smoothen *)

\* lines 33-48
SmoothenSetup ==
    /\ pc = "call" /\ call = "smoothen"
    /\ LET cp == copy_deepcopy(test_data)
       IN  test_data_smooth' = cp.data /\ shared' = cp.shared
    /\ keys' = smoothen_keys(keys, filter_functions)
    /\ fdict' = smoothen_fdict(keys', filter_functions)
    /\ inds' = smoothen_inds(pv_inds)
    /\ islice' = 1 /\ ipair' = 1
    /\ pc' = "filter_loop"
    /\ UNCHANGED <<test_data, filter_calls, error>>
    /\ SmoothFrame

\* the lengths of zip(inds[:-1], inds[1:]) and zip(keys, fdict)
NumSlices == Len(inds) - 1
NumPairs == Min(Len(keys.list), Len(fdict))

\* the call of line 54 at the current position of the two loops
CurrentCall ==
    LET key == keys.list[ipair]
        i0 == inds[islice]
        i1 == inds[islice + 1]
    IN  [key |-> key, f_key |-> fdict[ipair][1],
         filter |-> pair_filter(keys, fdict, ipair), i0 |-> i0, i1 |-> i1]

InLoopBody == pc = "filter_loop" /\ islice <= NumSlices /\ ipair <= NumPairs

\* line 54: test_data[key] of a key that test_data lacks
SmoothenKeyError ==
    /\ InLoopBody
    /\ CurrentCall.key \notin DOMAIN test_data
    /\ error' = "KeyError"
    /\ pc' = "raised"
    /\ UNCHANGED <<test_data, keys, fdict, inds, islice, ipair,
                   test_data_smooth, shared, filter_calls>>
    /\ SmoothFrame

\* line 54: the filter function raises
SmoothenFilterError ==
    /\ InLoopBody
    /\ CurrentCall.key \in DOMAIN test_data
    /\ LET c == CurrentCall
           t == PySlice(test_data["time"], c.i0, c.i1)
           v == PySlice(test_data[c.key], c.i0, c.i1)
       IN  /\ filter_error(c.filter, t, v) # "none"
           /\ error' = filter_error(c.filter, t, v)
           /\ filter_calls' = Append(filter_calls, c)
    /\ pc' = "raised"
    /\ UNCHANGED <<test_data, keys, fdict, inds, islice, ipair,
                   test_data_smooth, shared>>
    /\ SmoothFrame

\* lines 51-54: one pass of the inner loop body
SmoothenApply ==
    /\ InLoopBody
    /\ CurrentCall.key \in DOMAIN test_data
    /\ LET c == CurrentCall
           t == PySlice(test_data["time"], c.i0, c.i1)
           v == PySlice(test_data[c.key], c.i0, c.i1)
           written(arr) == SliceAssign(arr, c.i0, c.i1, filter_fun(c.filter, t, v))
       IN  /\ filter_error(c.filter, t, v) = "none"
           /\ filter_calls' = Append(filter_calls, c)
           /\ test_data_smooth' =
                 [test_data_smooth EXCEPT ![c.key] = written(@)]
           /\ test_data' =
                 IF c.key \in shared
                 THEN [test_data EXCEPT ![c.key] = written(@)]
                 ELSE test_data
    /\ IF ipair < NumPairs
       THEN ipair' = ipair + 1 /\ islice' = islice
       ELSE ipair' = 1 /\ islice' = islice + 1
    /\ UNCHANGED <<pc, keys, fdict, inds, shared, error>>
    /\ SmoothFrame

\* line 56: return test_data_smooth
SmoothenReturn ==
    /\ pc = "filter_loop"
    /\ islice > NumSlices \/ NumPairs = 0
    /\ pc' = "done"
    /\ UNCHANGED <<test_data, keys, fdict, inds, islice, ipair,
                   test_data_smooth, shared, filter_calls, error>>
    /\ SmoothFrame

NextSmooth ==
    \/ SmoothenSetup
    \/ SmoothenKeyError
    \/ SmoothenFilterError
    \/ SmoothenApply
    \/ SmoothenReturn

SpecSmooth == InitSmooth /\ [][NextSmooth]_vars

----------------------------------------------------------------------------
(* Claims about smoothen *)

SmoothenDone == call = "smoothen" /\ pc = "done"

\* the filter the caller gave for channel c
OwnFilter(c) ==
    IF filter_functions.is_dict THEN dict_get(filter_functions.items, c)
    ELSE filter_functions.fun

HasOwnFilter(c) ==
    filter_functions.is_dict => c \in dict_keys(filter_functions.items)

\* channel c holds, on every slice, what filter f returns for that slice
FilteredWith(c, f) ==
    \A j \in 1..NumSlices :
        LET i0 == inds[j]
            i1 == inds[j + 1]
            in == smoothen_args.test_data
        IN  PySlice(test_data_smooth[c], i0, i1) =
               filter_fun(f, PySlice(in["time"], i0, i1), PySlice(in[c], i0, i1))

\* C9 as stated: every selected channel c is filtered, on every slice, with
\* its own filter filter_functions[c] when filter_functions is a per-channel
\* mapping (with the single shared filter otherwise), whatever the order of
\* keys and of the mapping's entries and whether or not keys names all the
\* mapping's entries; the result is written back at the same positions.
C9_AsStated ==
    SmoothenDone =>
        \A n \in 1..Len(keys.list) :
            LET c == keys.list[n]
            IN  HasOwnFilter(c) => FilteredWith(c, OwnFilter(c))

\* keys lists the first entries of the mapping, in the mapping's order
KeysAligned ==
    \A n \in 1..Len(keys.list) : n <= Len(fdict) /\ fdict[n][1] = keys.list[n]

\* each selected channel gets its own filter when filter_functions is one
\* function, when keys is None, or when keys follows the mapping's order
C9_OwnFilterWhenAligned ==
    (SmoothenDone /\ KeysAligned) =>
        \A n \in 1..Len(keys.list) :
            FilteredWith(keys.list[n], OwnFilter(keys.list[n]))

\* otherwise the channel at position n of keys gets the filter of the
\* mapping's n-th entry, and channels beyond the mapping's length get none
C9_FilterByPosition ==
    SmoothenDone =>
        \A n \in 1..Len(keys.list) :
            FilteredWith(keys.list[n],
                         IF n <= Len(fdict) THEN fdict[n][2] ELSE "dummy_filter")

\* the channels selected for filtering, from the caller's arguments
Selected ==
    IF ~smoothen_args.keys.none THEN Range(smoothen_args.keys.list)
    ELSE IF filter_functions.is_dict THEN dict_keys(filter_functions.items)
    ELSE DOMAIN smoothen_args.test_data \ {"time", "stp"}

\* the last boundary index, or -1 without any boundary
LastBoundary ==
    LET flat == Range(Flatten(pv_inds))
    IN  IF flat = {} THEN 0 - 1
        ELSE CHOOSE m \in flat : \A x \in flat : x <= m

AllFiltersReturnInput ==
    IF filter_functions.is_dict
    THEN \A n \in 1..Len(filter_functions.items) :
            filter_functions.items[n][2] = "dummy_filter"
    ELSE filter_functions.fun = "dummy_filter"

\* C10: smoothen returns a mapping with the keys and per-channel lengths of
\* test_data in which every channel not selected ('time' and 'stp' by
\* default, or any channel outside keys) and every sample after the last
\* boundary index equals the input; the caller's test_data is not modified;
\* with a filter that returns its input the whole output equals the input.
C10_SmoothenFrame ==
    /\ call = "smoothen" => test_data = smoothen_args.test_data
    /\ SmoothenDone =>
          LET in == smoothen_args.test_data
          IN  /\ DOMAIN test_data_smooth = DOMAIN in
              /\ \A c \in DOMAIN in :
                    /\ Len(test_data_smooth[c]) = Len(in[c])
                    /\ c \notin Selected => test_data_smooth[c] = in[c]
                    /\ \A n \in 1..Len(in[c]) :
                          n - 1 > LastBoundary => test_data_smooth[c][n] = in[c][n]
              /\ (smoothen_args.keys.none /\ ~filter_functions.is_dict) =>
                    /\ test_data_smooth["time"] = in["time"]
                    /\ test_data_smooth["stp"] = in["stp"]
              /\ AllFiltersReturnInput => test_data_smooth = in

C10_Witness ==
    /\ SmoothenDone
    /\ smoothen_args.keys.none
    /\ ~filter_functions.is_dict /\ filter_functions.fun = "polynomial"
    /\ pv_inds = << <<1>>, <<2>> >>
    /\ LastBoundary < MaxInd
    /\ test_data_smooth["vals"][1] # test_data["vals"][1]
    /\ test_data_smooth["val2"][3] # test_data["val2"][3]
    /\ test_data_smooth["val2"][4] = test_data["val2"][4]

----------------------------------------------------------------------------
(* filter.py: the filter functions and the Spline class *)

\* The samples of t and v handed to the filter functions are whole numbers
\* n standing for n * 1.0, so that the powers x ** n are exact.

\* an optional argument: None, or the value given
None == << >>
Some(x) == << x >>

RECURSIVE Power(_, _)
Power(x, n) == IF n = 0 THEN 1 ELSE x * Power(x, n - 1)

RECURSIVE SumSeq(_)
SumSeq(s) == IF s = << >> THEN 0 ELSE Head(s) + SumSeq(Tail(s))

SetMin(S) == CHOOSE x \in S : \A y \in S : x <= y

\* a @ c for a matrix a, the sequence of its rows
MatVec(a, c) ==
    [r \in 1..Len(a) |-> SumSeq([k \in 1..Len(c) |-> a[r][k] * c[k]])]

\* The coefficient values the least-squares solver searches.  Every
\* generated polynomial has its coefficients here, so that a right-hand side
\* the columns can represent is fitted with residual 0, as np.linalg.lstsq
\* fits it; any other right-hand side gets the best fit within these values.
CoefGrid == 0..2

\* np.linalg.lstsq(a, b, rcond=None)[0] for a matrix a of ncols columns: the
\* least-squares solution of least norm
np_linalg_lstsq(a, ncols, b) ==
    LET cands == [1..ncols -> CoefGrid]
        res(c) == LET ac == MatVec(a, c)
                  IN  SumSeq([r \in 1..Len(a) |-> Power(ac[r] - b[r], 2)])
        best == SetMin({res(c) : c \in cands})
        sols == {c \in cands : res(c) = best}
        norm(c) == SumSeq([k \in 1..ncols |-> c[k] * c[k]])
        least == SetMin({norm(c) : c \in sols})
    IN  CHOOSE c \in sols : norm(c) = least

\* np.linalg.lstsq rejects a right-hand side of another length than a
lstsq_error(x, y) == IF Len(x) # Len(y) THEN "LinAlgError" ELSE "none"

\* np.zeros(n)
np_zeros(n) == [k \in 1..n |-> 0]

\* np.linspace(a, b, n); every generated span b - a is a multiple of n - 1
np_linspace(a, b, n) ==
    [i \in 1..n |-> IF n = 1 THEN a ELSE a + ((i - 1) * (b - a)) \div (n - 1)]

\* get_knots, lines 87-90; knot_fraction is the fraction kf[1] / kf[2]
get_knots_num(t, kf, num_knots) ==
    IF num_knots = None THEN (Len(t) * kf[1]) \div kf[2] ELSE num_knots[1]
get_knots_error(t) == IF Len(t) = 0 THEN "IndexError" ELSE "none"
get_knots(t, kf, num_knots) ==
    np_linspace(t[1], t[Len(t)], get_knots_num(t, kf, num_knots))

\* Spline.__init__, lines 104-108
Spline_init(d, knots) ==
    [degree |-> d, knot_vector |-> knots,
     coefficients |-> np_zeros(d + 1 + Len(knots)), fitted |-> FALSE]

\* Spline._get_fit_mat, lines 123-133
Spline_get_fit_mat_lowdeg(s, x) ==
    [r \in 1..Len(x) |->
        [col \in 1..Len(s.coefficients) |->
            IF col <= s.degree THEN Power(x[r], col - 1)
            ELSE IF col = s.degree + 1 THEN 0
            ELSE LET knot == s.knot_vector[col - s.degree - 1]
                 IN  IF x[r] > knot THEN Power(x[r] - knot, s.degree) ELSE 0]]
Spline_get_fit_mat(s, x) ==
    [r \in 1..Len(x) |->
        [col \in 1..Len(s.coefficients) |->
            IF col <= s.degree + 1 THEN Power(x[r], col - 1)
            ELSE LET knot == s.knot_vector[col - s.degree - 1]
                 IN  IF x[r] > knot THEN Power(x[r] - knot, s.degree) ELSE 0]]

\* Spline.fit, lines 110-114
Spline_fit_unfitted(s, x, y) ==
    [s EXCEPT !.coefficients =
        np_linalg_lstsq(Spline_get_fit_mat(s, x), Len(s.coefficients), y)]
Spline_fit(s, x, y) ==
    [s EXCEPT !.coefficients =
                 np_linalg_lstsq(Spline_get_fit_mat(s, x), Len(s.coefficients), y),
              !.fitted = TRUE]

\* Spline.eval, lines 116-120
Spline_eval_error(s) == IF s.fitted THEN "none" ELSE "AssertionError"
Spline_eval(s, x) == MatVec(Spline_get_fit_mat(s, x), s.coefficients)

\* np.polyfit(t, v, deg) and np.polyval(p, x), highest power first
np_vander(x, deg) ==
    [r \in 1..Len(x) |-> [col \in 1..(deg + 1) |-> Power(x[r], deg + 1 - col)]]
np_polyfit_error(t, v) ==
    IF Len(t) = 0 \/ Len(t) # Len(v) THEN "TypeError" ELSE "none"
np_polyfit(t, v, deg) == np_linalg_lstsq(np_vander(t, deg), deg + 1, v)
np_polyval(p, x) == MatVec(np_vander(x, Len(p) - 1), p)

\* the degree of the spline a filter function fits, lines 59-84
filter_degree(f, a) ==
    IF f = "linear_segments" THEN 1
    ELSE IF f = "cubic_spline" THEN 3
    ELSE a.degree

\* where a filter function evaluates its fit: t, or t_pred when given
eval_points(a) == IF a.t_pred = None THEN a.t ELSE a.t_pred[1]
----------------------------------------------------------------------------
(* Inputs of the filter functions and of the Spline class *)

MaxT == 4        \* longest generated t
MaxKnots == 2    \* largest num_knots and num_segments given
MaxDegree == 2   \* largest degree given to spline
MaxCalls == 3    \* most calls of fit and eval on one Spline object

SplineFilters == {"linear_segments", "cubic_spline", "spline"}

SplineTimes == {[i \in 1..n |-> 2 * (i - 1)] : n \in 0..MaxT}

\* c[1] + c[2] * x + c[3] * x ** 2 + ...
PolyValue(c, x) == SumSeq([k \in 1..Len(c) |-> c[k] * Power(x, k - 1)])

\* test_filters.py: constant data, v_lin, v_quad and cubic data
SplinePolys == {<<1>>, <<2, 1>>, <<1, 2, 1>>, <<1, 2, 1, 2>>}

\* the values v for the times t: the polynomials, and data that are none
SplineValues(t) ==
    {[i \in 1..Len(t) |-> PolyValue(c, t[i])] : c \in SplinePolys}
        \cup {[i \in 1..Len(t) |-> 3 * (i % 2)]}

KnotsArgs == {None} \cup {Some(n) : n \in 0..MaxKnots}

FilterInputs ==
    [f : {"polynomial"}, degree : {2, 3}, num_knots : {None}]
        \cup [f : {"linear_segments", "cubic_spline"}, degree : {0},
              num_knots : KnotsArgs]
        \cup [f : {"spline"}, degree : 0..MaxDegree, num_knots : KnotsArgs]

\* a Spline object used on its own: its knots and the arguments of its methods
ObjectKnots == {<< >>, <<2>>, <<0, 4>>}
FitInputs ==
    { << <<0, 2, 4>>, <<2, 8, 14>> >>, << <<0, 2>>, <<1, 1>> >>,
      << <<0, 2, 4>>, <<1, 1>> >> }
EvalInputs == { <<0, 2, 4>>, <<1>> }

\* cycle.py is not running
IdleCycle ==
    /\ num_per_cycle = 0 /\ num_ind_skip = 0 /\ min_change = 0
    /\ change_fun = "none" /\ qty = << >> /\ IdleLocals

InitFilter ==
    /\ \E a \in FilterInputs, t \in SplineTimes :
          /\ call = a.f
          /\ \E v \in SplineValues(t), tp \in {None, Some(t)} :
                spline_args = [t |-> t, v |-> v, degree |-> a.degree,
                               knot_fraction |-> <<1, 4>>,
                               num_knots |-> a.num_knots, t_pred |-> tp]
    /\ pc = "call"

InitObject ==
    /\ call = "Spline"
    /\ spline_args \in [degree : 0..1, knots : ObjectKnots]
    /\ pc = "call"

InitSpline ==
    /\ InitFilter \/ InitObject
    /\ sp = << >> /\ vf = << >> /\ sp_calls = << >>
    /\ test_data = << >> /\ pv_inds = << >>
    /\ IdleCycle /\ IdleSmooth /\ IdleGlobal /\ IdleMinimize /\ IdleYield

\* what a step of the filter functions leaves alone
SplineFrame ==
    UNCHANGED <<call, test_data, num_per_cycle, num_ind_skip, min_change,
                change_fun, pv_inds, ch_ind, i_old, i_ind, icycle, not_done,
                evals, qty, inds1, inds2, segment_data, smoothVars,
                spline_args, globalVars, minimizeVars, yieldVars>>

----------------------------------------------------------------------------
(* Steps of the filter functions and of the Spline class *)

\* lines 59-66: polynomial
Polynomial ==
    /\ call = "polynomial" /\ pc = "call"
    /\ LET a == spline_args
           e == np_polyfit_error(a.t, a.v)
       IN  IF e = "none"
           THEN /\ vf' = np_polyval(np_polyfit(a.t, a.v, a.degree), eval_points(a))
                /\ pc' = "done" /\ UNCHANGED error
           ELSE /\ error' = e /\ pc' = "raised" /\ UNCHANGED vf
    /\ UNCHANGED <<sp, sp_calls>>
    /\ SplineFrame

\* line 82: sp = Spline(degree=degree, knots=get_knots(t, knot_fraction, num_knots))
FilterCall ==
    /\ call \in SplineFilters /\ pc = "call"
    /\ LET a == spline_args
           e == get_knots_error(a.t)
       IN  IF e = "none"
           THEN /\ sp' = Spline_init(filter_degree(call, a),
                                     get_knots(a.t, a.knot_fraction, a.num_knots))
                /\ pc' = "constructed" /\ UNCHANGED error
           ELSE /\ error' = e /\ pc' = "raised" /\ UNCHANGED sp
    /\ UNCHANGED <<vf, sp_calls>>
    /\ SplineFrame

\* Spline(degree, knots) called directly
SplineNew ==
    /\ call = "Spline" /\ pc = "call"
    /\ sp' = Spline_init(spline_args.degree, spline_args.knots)
    /\ pc' = "object"
    /\ UNCHANGED <<vf, sp_calls, error>>
    /\ SplineFrame

\* a filter function is at its call of the method (pos), or the object is
\* used on its own and may be called again
AtMethod(pos) ==
    \/ call \in SplineFilters /\ pc = pos
    \/ call = "Spline" /\ pc = "object" /\ Len(sp_calls) < MaxCalls

\* sp.fit(x, y): line 83 calls it with (t, v)
SplineFit ==
    /\ AtMethod("constructed")
    /\ \E xy \in IF call = "Spline" THEN FitInputs
                 ELSE {<<spline_args.t, spline_args.v>>} :
          LET e == lstsq_error(xy[1], xy[2])
          IN  /\ sp' = IF e = "none" THEN Spline_fit(sp, xy[1], xy[2]) ELSE sp
              /\ sp_calls' = Append(sp_calls, [op |-> "fit", error |-> e])
              /\ error' = e
              /\ pc' = IF call = "Spline" THEN pc
                       ELSE IF e = "none" THEN "fitted" ELSE "raised"
    /\ UNCHANGED vf
    /\ SplineFrame

\* sp.eval(x): line 84 calls it with t or t_pred
SplineEval ==
    /\ AtMethod("fitted")
    /\ \E x \in IF call = "Spline" THEN EvalInputs
                ELSE {eval_points(spline_args)} :
          LET e == Spline_eval_error(sp)
          IN  /\ vf' = IF e = "none" THEN Spline_eval(sp, x) ELSE vf
              /\ sp_calls' = Append(sp_calls, [op |-> "eval", error |-> e])
              /\ error' = e
              /\ pc' = IF call = "Spline" THEN pc
                       ELSE IF e = "none" THEN "done" ELSE "raised"
    /\ UNCHANGED sp
    /\ SplineFrame

NextSpline ==
    \/ Polynomial
    \/ FilterCall
    \/ SplineNew
    \/ SplineFit
    \/ SplineEval

SpecSpline == InitSpline /\ [][NextSpline]_vars
----------------------------------------------------------------------------
(* Claims about the filter functions and the Spline class *)

\* linear_segments is called with num_segments given and len(t) <= num_segments
UnderDetermined ==
    /\ call = "linear_segments"
    /\ spline_args.num_knots # None
    /\ Len(spline_args.t) <= spline_args.num_knots[1]

Fits == {n \in 1..Len(sp_calls) : sp_calls[n].op = "fit"}

\* C11 (as stated): linear_segments(t, v, num_segments) with
\* len(t) <= num_segments fits nothing and ends with an error.
C11_AsStated ==
    UnderDetermined => Fits = {} /\ pc # "done"

\* What the code does instead: with at least one sample it fits the
\* under-determined spline and returns one value per sample.
C11_FitsUnderDetermined ==
    UnderDetermined /\ pc \in {"done", "raised"}
        => IF Len(spline_args.t) = 0
           THEN pc = "raised" /\ error = "IndexError" /\ Fits = {}
           ELSE pc = "done" /\ Fits # {} /\ Len(vf) = Len(spline_args.t)

\* a fit has completed before call n of the history
FitCompletedBefore(n) ==
    \E m \in 1..(n - 1) : sp_calls[m].op = "fit" /\ sp_calls[m].error = "none"

C12_State ==
    sp # << >> =>
        /\ Len(sp.coefficients) = sp.degree + 1 + Len(sp.knot_vector)
        /\ sp.fitted <=> FitCompletedBefore(Len(sp_calls) + 1)
        /\ \A n \in 1..Len(sp_calls) :
              sp_calls[n].op = "eval" =>
                  /\ sp_calls[n].error = "none" <=> FitCompletedBefore(n)
                  /\ sp_calls[n].error \in {"none", "AssertionError"}

C12_Step ==
    /\ sp # << >> /\ sp.fitted => sp' # << >> /\ sp'.fitted
    /\ Len(sp_calls') > Len(sp_calls) /\ sp_calls'[Len(sp_calls')].op = "eval"
          => IF error' = "none" THEN Len(vf') >= 0 ELSE vf' = vf

\* C12: for a Spline object under any sequence of fit and eval calls, eval
\* fails with an AssertionError and returns nothing exactly when no fit has
\* completed before it; a completed fit sets fitted, and no step resets it;
\* the coefficient vector has degree + 1 + number of knots entries before
\* and after every fit.
C12_SplineLifecycle == []C12_State /\ [][C12_Step]_vars

\* eval failed on the fresh object, a fit completed, and eval then returned
C12_Witness ==
    /\ call = "Spline" /\ Len(sp_calls) = 3
    /\ sp_calls[1] = [op |-> "eval", error |-> "AssertionError"]
    /\ sp_calls[2] = [op |-> "fit", error |-> "none"]
    /\ sp_calls[3] = [op |-> "eval", error |-> "none"]
    /\ Len(sp.knot_vector) = 2 /\ Len(sp.coefficients) = 4
    /\ sp.fitted /\ vf # << >>

FilterDone == call \in SplineFilters \cup {"polynomial"} /\ pc = "done"

\* v is a polynomial in t of degree <= d
IsPolynomial(t, v, d) ==
    \E c \in UNION {[1..n -> CoefGrid] : n \in 1..(d + 1)} :
        \A i \in 1..Len(t) : v[i] = PolyValue(c, t[i])

\* what spline(t, v, degree, knot_fraction, num_knots, t_pred) returns
spline(t, v, d, kf, num_knots, t_pred) ==
    LET s == Spline_fit(Spline_init(d, get_knots(t, kf, num_knots)), t, v)
    IN  Spline_eval(s, IF t_pred = None THEN t ELSE t_pred[1])

\* what the filter function called returns when t_pred is not given
WithoutPred ==
    LET a == spline_args
    IN  IF call = "polynomial"
        THEN np_polyval(np_polyfit(a.t, a.v, a.degree), a.t)
        ELSE spline(a.t, a.v, filter_degree(call, a), a.knot_fraction,
                    a.num_knots, None)

\* C13: a filter function that fits degree d returns v itself whenever v is
\* a polynomial in t of degree <= d, whatever the knots; with t_pred absent
\* or equal to t it returns one value per sample of t, and for t_pred = t
\* the values it returns without t_pred.
C13_ReproducesPolynomials ==
    FilterDone =>
        LET a == spline_args
        IN  /\ IsPolynomial(a.t, a.v, filter_degree(call, a)) => vf = a.v
            /\ Len(vf) = Len(a.t)
            /\ a.t_pred # None => vf = WithoutPred

\* cubic_spline with two knots returned cubic data, which is no quadratic
C13_Witness ==
    /\ FilterDone /\ call = "cubic_spline"
    /\ Len(sp.knot_vector) = 2 /\ Len(spline_args.t) = MaxT
    /\ IsPolynomial(spline_args.t, spline_args.v, 3)
    /\ ~IsPolynomial(spline_args.t, spline_args.v, 2)
    /\ spline_args.t_pred # None
    /\ vf = spline_args.v
----------------------------------------------------------------------------
(* global_filter.py: smooth_data *)

\* The samples are those of smoothen: a raw number, or the p-th value of the
\* least-squares fit of a channel, which is left uninterpreted.

\* get_fit_matrix, line 111
get_fit_matrix_error(knot_order, cycle_order) ==
    IF knot_order >= cycle_order THEN "none" ELSE "AssertionError"

\* get_fit_matrix, lines 113-120, for knots given as a number: the shape of
\* the matrix returned
get_fit_matrix_shape(time, cycle_times, knots, knot_order, cycle_order) ==
    [rows |-> Len(time),
     cols |-> cycle_order
                + (Len(cycle_times) - 1) * (1 + knot_order - cycle_order + knots)]

\* lines 33-35: sdata, and the keys whose array in it is a view of the
\* caller's array (a slice of a numpy array shares its memory)
smooth_data_copy(d, max_ind) ==
    [sdata |-> [key \in DOMAIN d |->
                   IF max_ind = 0 THEN d[key] ELSE PyTo(d[key], max_ind)],
     views |-> IF max_ind = 0 THEN {} ELSE DOMAIN d]

\* lines 42-47: _keys, for data that lists its keys in the order of channels
smooth_data_keys(channels, k) ==
    IF k.none THEN SelectSeq(channels, LAMBDA c : c \notin {"time", "stp"})
    ELSE k.list
smooth_data_keys_error(d, k) ==
    IF ~k.none /\ \E n \in 1..Len(k.list) : k.list[n] \notin DOMAIN d
    THEN "AssertionError" ELSE "none"

\* lines 51-55: fit_matrix @ coeff for the channel y
smooth_data_fit(fm, time, y) ==
    [p \in 1..fm.rows |->
        [f |-> "smooth_data", t |-> Numbers(time), v |-> Numbers(y), p |-> p]]

\* line 55: sdata[key] = ... binds a new array to the key
smooth_data_store_inplace(sd, vw, d, key, val) ==
    [sdata |-> [sd EXCEPT ![key] = val], views |-> vw,
     data |-> IF key \in vw
              THEN [d EXCEPT ![key] = SliceAssign(@, 0, Len(val), val)]
              ELSE d]
smooth_data_store(sd, vw, d, key, val) ==
    [sdata |-> [sd EXCEPT ![key] = val], views |-> vw \ {key}, data |-> d]

----------------------------------------------------------------------------
(* Inputs of smooth_data *)

SmoothDataKeys ==
    KeysArgs \cup
    {[none |-> FALSE, list |-> l] :
        l \in {<<"time">>, <<"stp", "vals">>, <<"vals", "absent">>}}

InitSmoothData ==
    /\ call = "smooth_data" /\ pc = "call" /\ error = "none"
    /\ data = SmoothTestData
    /\ \E k \in SmoothDataKeys, ct \in {<<0, 2>>, <<0, 1, 3>>},
          orders \in (0..1) \X (0..1), max_ind \in 0..(MaxInd + 2) :
          smooth_data_args =
              [data |-> data, cycle_time |-> ct, keys |-> k, knots |-> 1,
               knot_order |-> orders[1], cycle_order |-> orders[2],
               max_ind |-> max_ind]
    /\ sdata = << >> /\ views = {} /\ fit_matrix = << >>
    /\ _keys = << >> /\ ikey = 0
    /\ test_data = << >> /\ pv_inds = << >>
    /\ num_per_cycle = 0 /\ num_ind_skip = 0 /\ min_change = 0
    /\ change_fun = "none" /\ qty = << >>
    /\ ch_ind = << >> /\ i_old = 0 /\ i_ind = 0 /\ icycle = 0
    /\ not_done = FALSE /\ evals = << >>
    /\ inds1 = << >> /\ inds2 = << >> /\ segment_data = << >>
    /\ IdleSmooth /\ IdleSpline /\ IdleMinimize /\ IdleYield

\* what a step of smooth_data leaves alone
SmoothDataFrame ==
    UNCHANGED <<call, test_data, num_per_cycle, num_ind_skip, min_change,
                change_fun, pv_inds, ch_ind, i_old, i_ind, icycle, not_done,
                evals, qty, inds1, inds2, segment_data, smoothVars,
                splineVars, smooth_data_args, minimizeVars, yieldVars>>

----------------------------------------------------------------------------
(* Steps of smooth_data *)

\* lines 33-47: the copy, the fitting matrix and the choice of the keys
SmoothDataSetup ==
    /\ call = "smooth_data" /\ pc = "call"
    /\ LET a == smooth_data_args
           cp == smooth_data_copy(data, a.max_ind)
           e1 == get_fit_matrix_error(a.knot_order, a.cycle_order)
           e2 == smooth_data_keys_error(data, a.keys)
       IN  /\ sdata' = cp.sdata /\ views' = cp.views
           /\ IF e1 # "none"
              THEN /\ error' = e1 /\ pc' = "raised"
                   /\ UNCHANGED <<fit_matrix, _keys, ikey>>
              ELSE /\ fit_matrix' =
                         get_fit_matrix_shape(cp.sdata["time"], a.cycle_time,
                                              a.knots, a.knot_order, a.cycle_order)
                   /\ IF e2 # "none"
                      THEN /\ error' = e2 /\ pc' = "raised"
                           /\ UNCHANGED <<_keys, ikey>>
                      ELSE /\ _keys' = smooth_data_keys(SmoothChannels, a.keys)
                           /\ ikey' = 1 /\ pc' = "fit_loop"
                           /\ UNCHANGED error
    /\ UNCHANGED data
    /\ SmoothDataFrame

\* lines 49-55: one pass of the loop over _keys
SmoothDataFit ==
    /\ call = "smooth_data" /\ pc = "fit_loop" /\ ikey <= Len(_keys)
    /\ LET key == _keys[ikey]
           e == lstsq_error(sdata["time"], sdata[key])
           st == smooth_data_store(sdata, views, data, key,
                     smooth_data_fit(fit_matrix, sdata["time"], sdata[key]))
       IN  IF e = "none"
           THEN /\ sdata' = st.sdata /\ views' = st.views /\ data' = st.data
                /\ ikey' = ikey + 1
                /\ UNCHANGED <<pc, error>>
           ELSE /\ error' = e /\ pc' = "raised"
                /\ UNCHANGED <<sdata, views, data, ikey>>
    /\ UNCHANGED <<fit_matrix, _keys>>
    /\ SmoothDataFrame

\* line 57: return sdata
SmoothDataReturn ==
    /\ call = "smooth_data" /\ pc = "fit_loop" /\ ikey > Len(_keys)
    /\ pc' = "done"
    /\ UNCHANGED <<data, sdata, views, fit_matrix, _keys, ikey, error>>
    /\ SmoothDataFrame

NextSmoothData ==
    \/ SmoothDataSetup
    \/ SmoothDataFit
    \/ SmoothDataReturn

SpecSmoothData == InitSmoothData /\ [][NextSmoothData]_vars

----------------------------------------------------------------------------
(* Claims about smooth_data *)

SmoothDataDone == call = "smooth_data" /\ pc = "done"

\* the keys smooth_data is asked to smooth
SelectedKeys ==
    LET a == smooth_data_args
    IN  IF a.keys.none THEN DOMAIN a.data \ {"time", "stp"}
        ELSE Range(a.keys.list)

\* a key that data lacks is requested: the call ends with an AssertionError
RejectsAbsentKey ==
    /\ call = "smooth_data" /\ pc \in {"done", "raised"}
    /\ ~smooth_data_args.keys.none
    /\ Range(smooth_data_args.keys.list) \ DOMAIN smooth_data_args.data # {}
    => pc = "raised" /\ error = "AssertionError"

\* the caller's arrays are as they were passed
DataUntouched == call = "smooth_data" => data = smooth_data_args.data

FirstMaxInd(arr) ==
    IF smooth_data_args.max_ind = 0 THEN arr
    ELSE PyTo(arr, smooth_data_args.max_ind)

----------------------------------------------------------------------------
(* global_filter.py: minimize, _update_mat and optimize_cycle_times         *)
(*                                                                          *)
(* The floats of minimize are exact rationals << n, d >> in lowest terms    *)
(* with d > 0; d = 0 stands for the non-finite floats: << 1, 0 >> is inf,   *)
(* << -1, 0 >> is -inf and << 0, 0 >> is nan.  Rounding and the sign of a   *)
(* zero are outside the model.                                              *)

\* the value of the one-element set S: {f(x) : x \in {v}} computes v once
Only(S) == CHOOSE x \in S : TRUE

RECURSIVE GCD(_, _)
GCD(a, b) ==
    IF b = 0 THEN a ELSE Only({GCD(p[2], p[1] % p[2]) : p \in {<< a, b >>}})

Abs(n) == IF n < 0 THEN -n ELSE n
Sign(n) == IF n > 0 THEN 1 ELSE IF n < 0 THEN -1 ELSE 0

\* the float n / d
Rat(n, d) ==
    Only({IF p[2] = 0 THEN << Sign(p[1]), 0 >>
          ELSE Only({<< Sign(p[2]) * (p[1] \div g), Abs(p[2]) \div g >> :
                        g \in {GCD(Abs(p[1]), Abs(p[2]))}}) :
             p \in {<< n, d >>}})

Float(n) == << n, 1 >>
nan == << 0, 0 >>
isfinite(a) == a[2] # 0

\* a + b: inf + -inf and every sum with nan are nan
RAdd(a, b) ==
    Only({IF p[1][2] = 0 /\ p[2][2] = 0
          THEN (IF p[1] = p[2] THEN p[1] ELSE nan)
          ELSE IF p[1][2] = 0 THEN p[1]
          ELSE IF p[2][2] = 0 THEN p[2]
          ELSE Rat(p[1][1] * p[2][2] + p[2][1] * p[1][2], p[1][2] * p[2][2]) :
             p \in {<< a, b >>}})

RNeg(a) == Only({<< -p[1], p[2] >> : p \in {a}})
RSub(a, b) == RAdd(a, RNeg(b))

\* a * b: inf * 0 is nan
RMul(a, b) ==
    Only({Rat(p[1][1] * p[2][1], p[1][2] * p[2][2]) : p \in {<< a, b >>}})

\* 1 / b: 1 / 0 is inf, 1 / inf is 0
RInv(b) ==
    Only({IF p[1] > 0 THEN << p[2], p[1] >>
          ELSE IF p[1] < 0 THEN << -p[2], -p[1] >>
          ELSE IF p[2] = 0 THEN nan ELSE << 1, 0 >> : p \in {b}})

\* a / b: x / 0 is inf or -inf by the sign of x, 0 / 0 is nan
RDiv(a, b) == RMul(a, RInv(b))

\* a < b: every comparison with nan is False
RLt(a, b) ==
    \E p \in {<< a, b >>} :
        IF p[1] = nan \/ p[2] = nan THEN FALSE
        ELSE IF p[1] = << -1, 0 >> THEN p[2] # << -1, 0 >>
        ELSE IF p[2] = << 1, 0 >> THEN p[1] # << 1, 0 >>
        ELSE IF p[1][2] = 0 \/ p[2][2] = 0 THEN FALSE
        ELSE p[1][1] * p[2][2] < p[2][1] * p[1][2]

RAbs(a) == Only({<< Abs(p[1]), p[2] >> : p \in {a}})

RECURSIVE RSum(_)
RSum(s) == IF s = << >> THEN Float(0) ELSE RAdd(s[1], RSum(Tail(s)))

\* the objective function passed to minimize.  It returns e and evec, where
\* evec[i] depends on t[i] only (the key assumption of minimize).  A
\* coordinate's error is |t - c|, (t - c)^2 or 0, and e is the sum of evec.
objective_value(o, x) ==
    CASE o.f = "abs" -> RAbs(RSub(x, o.c))
      [] o.f = "square" -> RMul(RSub(x, o.c), RSub(x, o.c))
      [] OTHER -> Float(0)

objective_function(obj, t) ==
    Only({[e |-> RSum(evec), evec |-> evec] :
             evec \in {[i \in 1..Len(t) |-> objective_value(obj[i], t[i])]}})

\* np.linalg.lstsq(a, b, rcond=None)[0] of lines 224-226: the least-squares
\* quadratic k[0] + k[1] x + k[2] x^2 through three finite points.  With
\* three different x it interpolates; with fewer the matrix is rank
\* deficient and lstsq returns the least-squares solution of least norm,
\* which lies in the span of the rows (1, x, x^2).
lstsq_rank3(x, y) ==
    Only({Only({Only({<< RSub(RSub(y[1], RMul(k1, x[1])),
                               RMul(k2, RMul(x[1], x[1]))), k1, k2 >> :
                         k1 \in {RSub(s[1], RMul(k2, RAdd(x[1], x[2])))}}) :
                   k2 \in {RDiv(RSub(s[1], s[2]), RSub(x[1], x[3]))}}) :
             s \in {<< RDiv(RSub(y[1], y[2]), RSub(x[1], x[2])),
                       RDiv(RSub(y[2], y[3]), RSub(x[2], x[3])) >>}})

\* the Gram matrix of the rows (1, p, p^2) and (1, q, q^2)
lstsq_gram(p, q) ==
    Only({[pp |-> s[1], qq |-> s[2],
           a11 |-> RAdd(Float(1), RAdd(s[1], RMul(s[1], s[1]))),
           a12 |-> RAdd(Float(1), RAdd(s[3], RMul(s[3], s[3]))),
           a22 |-> RAdd(Float(1), RAdd(s[2], RMul(s[2], s[2])))] :
             s \in {<< RMul(p, p), RMul(q, q), RMul(p, q) >>}})

lstsq_rank2(p, yp, q, yq) ==
    Only({Only({Only({<< RAdd(l[1], l[2]),
                         RAdd(RMul(l[1], p), RMul(l[2], q)),
                         RAdd(RMul(l[1], g.pp), RMul(l[2], g.qq)) >> :
                         l \in {<< RDiv(RSub(RMul(yp, g.a22),
                                             RMul(yq, g.a12)), det),
                                   RDiv(RSub(RMul(yq, g.a11),
                                             RMul(yp, g.a12)), det) >>}}) :
                   det \in {RSub(RMul(g.a11, g.a22), RMul(g.a12, g.a12))}}) :
             g \in {lstsq_gram(p, q)}})

lstsq_rank1(p, yp) ==
    Only({Only({<< RDiv(yp, n), RDiv(RMul(yp, p), n), RDiv(RMul(yp, pp), n) >> :
                   n \in {RAdd(Float(1), RAdd(pp, RMul(pp, pp)))}}) :
             pp \in {RMul(p, p)}})

lstsq_quadratic(x, y) ==
    LET mean2(a, b) == RDiv(RAdd(a, b), Float(2))
    IN  IF x[1] # x[2] /\ x[2] # x[3] /\ x[1] # x[3] THEN lstsq_rank3(x, y)
        ELSE IF x[1] = x[2] /\ x[2] = x[3]
             THEN lstsq_rank1(x[1], RDiv(RSum(y), Float(3)))
        ELSE IF x[1] = x[2]
             THEN lstsq_rank2(x[1], mean2(y[1], y[2]), x[3], y[3])
        ELSE IF x[2] = x[3]
             THEN lstsq_rank2(x[1], y[1], x[2], mean2(y[2], y[3]))
        ELSE lstsq_rank2(x[1], mean2(y[1], y[3]), x[2], y[2])

\* lines 211-213: every row moves one place down, row 0 stays
shift_rows(m) == << m[1], m[1], m[2], m[3] >>

\* lines 224-234, one coordinate.  dt and fe are the shifted columns:
\* dt[2] is dt_mat[1, i].  lstsq of an array with a non-finite entry
\* gives nan coefficients here; that it can raise instead is LinAlgError
\* below.
update_coordinate(dt, fe, dt_chg, dt_max) ==
    LET x == << dt[2], dt[3], dt[4] >>
        y == << fe[2], fe[3], fe[4] >>
        finite == \A j \in 1..3 : isfinite(x[j]) /\ isfinite(y[j])
        slope == RDiv(RSub(fe[2], fe[3]), RSub(dt[2], dt[3]))
    IN  Only({Only({IF RLt(k[3], Float(0)) \/ RLt(dt_max, RAbs(vertex))
                    THEN IF RLt(slope, Float(0)) THEN RAdd(dt[2], dt_chg)
                         ELSE RSub(dt[3], dt_chg)
                    ELSE vertex :
                       vertex \in {RDiv(RNeg(k[2]), RMul(Float(2), k[3]))}}) :
                 k \in {IF finite THEN lstsq_quadratic(x, y)
                        ELSE << nan, nan, nan >>}})

\* _update_mat, lines 204-234: the new dt_mat and fe_mat
_update_mat(dt, fe, dt_chg, dt_max, n) ==
    LET num == Len(dt[1])
        col(m, i) == [r \in 1..4 |-> m[r][i]]
    IN  Only({[dt_mat |->
                 << IF n = 0 THEN [i \in 1..num |-> RAdd(s[1][1][i], dt_chg)]
                    ELSE IF n = 1
                    THEN [i \in 1..num |->
                            RAdd(s[1][1][i],
                                 RMul(IF RLt(s[2][2][i], s[2][3][i])
                                      THEN Float(1) ELSE Float(-2), dt_chg))]
                    ELSE [i \in 1..num |->
                            update_coordinate(col(s[1], i), col(s[2], i),
                                              dt_chg, dt_max)],
                    s[1][2], s[1][3], s[1][4] >>,
               fe_mat |-> s[2]] :
                 s \in {<< shift_rows(dt), shift_rows(fe) >>}})

\* line 198: np.all(np.abs(dt_mat[0, :] - dt_mat[1, :]) < dt_change_tol)
minimize_converged_any(dt, dt_change_tol) ==
    \E i \in 1..Len(dt[1]) :
        RLt(RAbs(RSub(dt[1][i], dt[2][i])), dt_change_tol)

minimize_converged(dt, dt_change_tol) ==
    \A i \in 1..Len(dt[1]) :
        RLt(RAbs(RSub(dt[1][i], dt[2][i])), dt_change_tol)

\* lines 195-196: dt_change after the iteration n_iter that gave the error e
halve_dt_change_always(dt_chg, e, e_old, n) ==
    IF RLt(e_old, e) THEN RDiv(dt_chg, Float(2)) ELSE dt_chg

halve_dt_change(dt_chg, e, e_old, n) ==
    IF RLt(e_old, e) /\ n > 0 THEN RDiv(dt_chg, Float(2)) ELSE dt_chg

\* t0 + dt_mat[0, :]
vec_add(a, b) == [i \in 1..Len(a) |-> RAdd(a[i], b[i])]

\* np.zeros((4, n))
zeros4(n) == [r \in 1..4 |-> [i \in 1..n |-> Float(0)]]

\* lstsq of line 226 gets a non-finite entry in iteration n for some
\* coordinate: rows 0..2 before the shift are rows 1..3 after it
lstsq_nonfinite(dt, fe, n) ==
    /\ n >= 2
    /\ \E i \in 1..Len(dt[1]), r \in 1..3 :
          ~isfinite(dt[r][i]) \/ ~isfinite(fe[r][i])

(* Inputs *)

MaxIter == 12
MaxCoord == 2

\* a coordinate's error: decreasing on the whole range (minimum far above
\* t0), increasing on the whole range (minimum far below), a parabola with
\* its minimum one initial step below t0, or flat
Objectives(t0i) ==
    { [f |-> "abs", c |-> RAdd(t0i, Float(20))],
      [f |-> "abs", c |-> RSub(t0i, Float(20))],
      [f |-> "square", c |-> RSub(t0i, Float(1))],
      [f |-> "zero", c |-> t0i] }

CycleTimes == {[i \in 1..n |-> Float(3 * (i - 1))] : n \in 1..MaxCoord}

ObjectiveFunctions(t0) ==
    {obj \in [1..Len(t0) -> UNION {Objectives(t0[i]) : i \in 1..Len(t0)}] :
        \A i \in 1..Len(t0) : obj[i] \in Objectives(t0[i])}

InitMinimize ==
    /\ \E t0 \in CycleTimes :
       \E obj \in ObjectiveFunctions(t0), m \in 0..MaxIter :
          \/ /\ call = "minimize" /\ pc = "minimize"
             /\ \E dt_change_tol \in {Rat(1, 100), Rat(1, 4)} :
                   minimize_args =
                       [objective_function |-> obj, t0 |-> t0,
                        dt_init |-> Float(1), dt_max |-> Float(2),
                        dt_change_tol |-> dt_change_tol, max_iter |-> m]
          \/ /\ call = "optimize_cycle_times" /\ pc = "call"
             /\ minimize_args =
                    [objective_function |-> obj, cycle_time |-> t0,
                     dt_max |-> Float(10), max_iter |-> m]
    /\ dt_mat = << >> /\ fe_mat = << >> /\ dt_change = << >>
    /\ n_iter = 0 /\ err_save = << >> /\ opt_cycle_time = << >>
    /\ test_data = << >> /\ pv_inds = << >>
    /\ IdleCycle /\ IdleSmooth /\ IdleSpline /\ IdleGlobal /\ IdleYield

\* what a step of minimize leaves alone
MinimizeFrame ==
    UNCHANGED <<call, test_data, num_per_cycle, num_ind_skip, min_change,
                change_fun, pv_inds, ch_ind, i_old, i_ind, icycle, not_done,
                evals, qty, inds1, inds2, segment_data, smoothVars,
                splineVars, globalVars, yieldVars>>

(* Steps *)

\* optimize_cycle_times, lines 86-94, up to the call of minimize
OptimizeCycleTimes ==
    /\ call = "optimize_cycle_times" /\ pc = "call"
    /\ minimize_args' =
           [objective_function |-> minimize_args.objective_function,
            t0 |-> minimize_args.cycle_time,
            dt_init |-> RDiv(minimize_args.dt_max, Float(10)),
            dt_max |-> minimize_args.dt_max,
            dt_change_tol |-> RDiv(minimize_args.dt_max, Float(1000)),
            max_iter |-> minimize_args.max_iter]
    /\ pc' = "minimize"
    /\ UNCHANGED <<dt_mat, fe_mat, dt_change, n_iter, err_save,
                   opt_cycle_time, error>>
    /\ MinimizeFrame

\* minimize, lines 185-189
MinimizeStart ==
    /\ pc = "minimize"
    /\ \E o \in {objective_function(minimize_args.objective_function,
                                    minimize_args.t0)} :
          /\ dt_mat' = zeros4(Len(minimize_args.t0))
          /\ fe_mat' = [zeros4(Len(minimize_args.t0)) EXCEPT ![1] = o.evec]
          /\ err_save' = << o.e >>
    /\ dt_change' = minimize_args.dt_init
    /\ n_iter' = 0
    /\ pc' = "loop"
    /\ UNCHANGED <<minimize_args, opt_cycle_time, error>>
    /\ MinimizeFrame

\* one iteration of the loop, lines 190-199
MinimizeIterate ==
    /\ pc = "loop" /\ n_iter < minimize_args.max_iter
    /\ \E u \in {_update_mat(dt_mat, fe_mat, dt_change, minimize_args.dt_max,
                            n_iter)} :
       \E o \in {objective_function(minimize_args.objective_function,
                                    vec_add(minimize_args.t0, u.dt_mat[1]))} :
          /\ dt_mat' = u.dt_mat
          /\ fe_mat' = [u.fe_mat EXCEPT ![1] = o.evec]
          /\ err_save' = Append(err_save, o.e)
          /\ dt_change' = halve_dt_change(dt_change, o.e,
                                           err_save[Len(err_save)], n_iter)
          /\ pc' = IF minimize_converged(u.dt_mat,
                                         minimize_args.dt_change_tol)
                   THEN "break" ELSE "loop"
    /\ n_iter' = n_iter + 1
    /\ UNCHANGED <<minimize_args, opt_cycle_time, error>>
    /\ MinimizeFrame

\* line 226 inside _update_mat: np.linalg.lstsq raises LinAlgError (the SVD
\* does not converge) for an array with a non-finite entry; whether it
\* raises or returns nan depends on the LAPACK build
MinimizeLinAlgError ==
    /\ pc = "loop" /\ n_iter < minimize_args.max_iter
    /\ lstsq_nonfinite(dt_mat, fe_mat, n_iter)
    /\ error' = "LinAlgError"
    /\ pc' = "raised"
    /\ n_iter' = n_iter + 1
    /\ UNCHANGED <<minimize_args, dt_mat, fe_mat, dt_change, err_save,
                   opt_cycle_time>>
    /\ MinimizeFrame

\* line 201, and line 96 of optimize_cycle_times
MinimizeReturn ==
    /\ \/ pc = "break"
       \/ pc = "loop" /\ n_iter = minimize_args.max_iter
    /\ opt_cycle_time' = vec_add(minimize_args.t0, dt_mat[1])
    /\ pc' = "done"
    /\ UNCHANGED <<minimize_args, dt_mat, fe_mat, dt_change, n_iter,
                   err_save, error>>
    /\ MinimizeFrame

NextMinimize ==
    \/ OptimizeCycleTimes
    \/ MinimizeStart
    \/ MinimizeIterate
    \/ MinimizeLinAlgError
    \/ MinimizeReturn

SpecMinimize == InitMinimize /\ [][NextMinimize]_vars

----------------------------------------------------------------------------
(* Claims about minimize *)

InMinimize == pc \in {"loop", "break", "done", "raised"}

\* every coordinate's offset changed by less than dt_change_tol in the last
\* iteration
AllChangesBelowTol ==
    \A i \in 1..Len(minimize_args.t0) :
        RLt(RAbs(RSub(dt_mat[1][i], dt_mat[2][i])),
            minimize_args.dt_change_tol)

\* the steps that are left at most: it is never negative and every step
\* lowers it
MinimizeVariant ==
    3 * (minimize_args.max_iter - n_iter)
    + (CASE pc = "call" -> 4 [] pc = "minimize" -> 3 [] pc = "loop" -> 2
         [] pc = "break" -> 1 [] OTHER -> 0)

C15_State ==
    /\ InMinimize =>
          /\ n_iter <= minimize_args.max_iter
          /\ Len(err_save) <= n_iter + 1
    /\ MinimizeVariant >= 0
    /\ pc = "break" => AllChangesBelowTol
    /\ pc = "done" =>
          /\ error = "none"
          /\ Len(opt_cycle_time) = Len(minimize_args.t0)
          /\ n_iter = minimize_args.max_iter \/ AllChangesBelowTol

C15_Step ==
    /\ MinimizeVariant' < MinimizeVariant
    /\ n_iter' # n_iter => pc = "loop" /\ n_iter' = n_iter + 1
    /\ pc' = "loop" /\ pc = "loop" => ~AllChangesBelowTol'
    /\ Len(err_save') > Len(err_save) =>
          n_iter' = n_iter + 1 \/ pc = "minimize"

\* C15: minimize terminates: every step lowers a measure that is never
\* negative, the loop runs at most max_iter iterations with at most
\* max_iter + 1 evaluations of the objective, it is left after the first
\* iteration in which every coordinate changed by less than dt_change_tol,
\* and when max_iter is reached without convergence a vector is returned
\* and no error is raised.
C15_MinimizeTerminates == []C15_State /\ [][C15_Step]_vars

C15_Witness ==
    /\ pc = "done" /\ error = "none"
    /\ n_iter = minimize_args.max_iter /\ n_iter >= 3
    /\ Len(err_save) = minimize_args.max_iter + 1
    /\ Len(opt_cycle_time) = 2
    /\ ~AllChangesBelowTol

\* C16: every coordinate of the vector minimize returns differs from t0 by
\* at most dt_max.
C16_AsStated ==
    pc = "done" =>
        \A i \in 1..Len(opt_cycle_time) :
            LET d == RSub(opt_cycle_time[i], minimize_args.t0[i])
            IN  isfinite(d) /\ ~RLt(minimize_args.dt_max, RAbs(d))

\* no gradient step of _update_mat is limited by dt_max: a coordinate whose
\* error decreases on the whole range leaves the range, also when minimize
\* is called by optimize_cycle_times
C16_LeavesRange ==
    /\ call = "optimize_cycle_times" /\ pc = "done"
    /\ \E i \in 1..Len(opt_cycle_time) :
          LET d == RSub(opt_cycle_time[i], minimize_args.t0[i])
          IN  isfinite(d) /\ RLt(minimize_args.dt_max, RAbs(d))

----------------------------------------------------------------------------
(* yield_point.py and von_mises.py                                          *)
(*                                                                          *)
(* Samples are the exact rationals of minimize.  The generated data are     *)
(* uniaxial (tau = gam = 0) or proportional (tau = sig, gam = 3 eps), which *)
(* makes every square root of von_mises.py the root of a square.            *)

yield_keys == << "Emod", "Gmod", "eps", "sig", "gam", "tau", "time" >>

\* the largest r in lo..hi with r * r <= n
RECURSIVE SqrtSearch(_, _, _)
SqrtSearch(lo, hi, n) ==
    IF lo >= hi THEN lo
    ELSE Only({IF m * m <= n THEN SqrtSearch(m, hi, n)
               ELSE SqrtSearch(lo, m - 1, n) : m \in {(lo + hi + 1) \div 2}})

ISqrt(n) == SqrtSearch(0, IF n < 46340 THEN n ELSE 46340, n)

\* np.sqrt of a float that is a square, inf or nan
RSqrt(a) ==
    Only({IF p[2] = 0 THEN p ELSE << ISqrt(p[1]), ISqrt(p[2]) >> : p \in {a}})

\* von_mises.py, line 32
vm_vm(sig, tau) ==
    RSqrt(RAdd(RMul(sig, sig), RMul(Float(3), RMul(tau, tau))))

\* von_mises.py, line 75
vm_evm(eps, gam) ==
    RSqrt(RAdd(RMul(eps, eps), RDiv(RMul(gam, gam), Float(3))))

\* arr[i] for a Python index i, which counts from the end when negative
py_get(arr, i) == IF i < 0 THEN arr[Len(arr) + i + 1] ELSE arr[i + 1]

\* np.argmax(arr > thr) of a non-empty arr: the first index whose entry is
\* above thr, and 0 when no entry is
np_argmax_gt(arr, thr) ==
    LET above == {k \in 1..Len(arr) : RLt(thr, arr[k])}
    IN  IF above = {} THEN 0 ELSE SetMin(above) - 1

\* np.mean
RMean(s) == RDiv(RSum(s), Float(Len(s)))

\* arr[i1:i2] also for i2 < i1
window(arr, i1, i2) == IF i2 <= i1 THEN << >> ELSE PySlice(arr, i1, i2)

\* the sums of a straight-line fit: the means and the centred sums
line_sums(x, y) ==
    Only({[xm |-> m[1], ym |-> m[2],
           sxx |-> RSum([k \in 1..Len(x) |->
                           RMul(RSub(x[k], m[1]), RSub(x[k], m[1]))]),
           sxy |-> RSum([k \in 1..Len(x) |->
                           RMul(RSub(x[k], m[1]), RSub(y[k], m[2]))])] :
             m \in {<< RMean(x), RMean(y) >>}})

\* np.linalg.lstsq for the columns (1, x): << intercept, slope >>.  No row
\* gives zeros; equal x make the matrix rank deficient and give the
\* solution of least norm.
lstsq_line(x, y) ==
    IF Len(x) = 0 THEN << Float(0), Float(0) >>
    ELSE Only({IF q.sxx = Float(0)
               THEN Only({<< RDiv(q.ym, n), RDiv(RMul(q.ym, x[1]), n) >> :
                             n \in {RAdd(Float(1), RMul(x[1], x[1]))}})
               ELSE Only({<< RSub(q.ym, RMul(k, q.xm)), k >> :
                             k \in {RDiv(q.sxy, q.sxx)}}) :
                  q \in {line_sums(x, y)}})

\* np.polyfit(x, y, deg=1): the outcomes, p = << slope, intercept >>.
\* polyfit rejects an empty x, divides the columns (x, 1) by their norms
\* before it calls lstsq and divides the solution by them afterwards: equal
\* x give (mean(y) / (2 x), mean(y) / 2), and x of zeros give a column of
\* nan, for which lstsq raises or returns nan depending on the LAPACK build.
polyfit_line(x, y) ==
    IF Len(x) = 0 THEN {[error |-> "TypeError", p |-> << >>]}
    ELSE Only({IF q.sxx # Float(0)
               THEN Only({{[error |-> "none",
                            p |-> << k, RSub(q.ym, RMul(k, q.xm)) >>]} :
                             k \in {RDiv(q.sxy, q.sxx)}})
               ELSE IF x[1] # Float(0)
               THEN {[error |-> "none",
                      p |-> << RDiv(q.ym, RMul(Float(2), x[1])),
                               RDiv(q.ym, Float(2)) >>]}
               ELSE {[error |-> "LinAlgError", p |-> << >>],
                     [error |-> "none", p |-> << nan, nan >>]} :
                  q \in {line_sums(x, y)}})

\* get_compliance, lines 109-112
get_compliance_error_lax(anisotropic, axial, shear) ==
    IF anisotropic /\ ~(axial /\ shear) THEN "ValueError" ELSE "none"

get_compliance_error(anisotropic, axial, shear) ==
    IF anisotropic /\ ~(axial /\ shear) THEN "ValueError"
    ELSE IF ~(axial \/ shear) THEN "ValueError"
    ELSE "none"

\* lines 116-146 with anisotropic: lstsq of the matrix with the rows
\* (1, 0, sig, 0, tau) and (0, 1, 0, tau, sig).  The generated data of these
\* calls are whole numbers that coefficients of CoefGrid reproduce.
compliance_anisotropic(sig, tau, eps, gam) ==
    LET n == Len(sig)
        a == [r \in 1..(2 * n) |->
                IF r % 2 = 1
                THEN << 1, 0, sig[(r + 1) \div 2][1], 0,
                        tau[(r + 1) \div 2][1] >>
                ELSE << 0, 1, 0, tau[r \div 2][1], sig[r \div 2][1] >>]
        b == [r \in 1..(2 * n) |->
                IF r % 2 = 1 THEN eps[(r + 1) \div 2][1]
                ELSE gam[r \div 2][1]]
    IN  Only({[k \in 1..5 |-> Float(c[k])] : c \in {np_linalg_lstsq(a, 5, b)}})

\* get_compliance, lines 109-153: the outcomes.  np.zeros of line 119
\* rejects a negative number of rows.  Without anisotropic the matrix of
\* line 119 has the columns (1, sig) in its even rows and (1, tau) in its
\* odd rows only, so lstsq fits the two lines separately.
get_compliance(td, ind, anisotropic, axial, shear) ==
    LET sig == window(td.sig, ind[1], ind[2])
        tau == window(td.tau, ind[1], ind[2])
        eps == window(td.eps, ind[1], ind[2])
        gam == window(td.gam, ind[1], ind[2])
    IN  IF get_compliance_error(anisotropic, axial, shear) # "none"
        THEN {[error |-> get_compliance_error(anisotropic, axial, shear),
               c |-> None]}
        ELSE IF axial /\ shear
        THEN IF ind[2] < ind[1] THEN {[error |-> "ValueError", c |-> None]}
             ELSE IF anisotropic
             THEN {[error |-> "none",
                    c |-> compliance_anisotropic(sig, tau, eps, gam)]}
             ELSE Only({{[error |-> "none",
                          c |-> << f[1][1], f[2][1], f[1][2], f[2][2] >>]} :
                           f \in {<< lstsq_line(sig, eps),
                                     lstsq_line(tau, gam) >>}})
        ELSE IF axial
        THEN {[error |-> o.error,
               c |-> IF o.error # "none" THEN None
                     ELSE << o.p[2], RMean(gam), o.p[1], Float(0) >>] :
                 o \in polyfit_line(sig, eps)}
        ELSE IF shear
        THEN {[error |-> o.error,
               c |-> IF o.error # "none" THEN None
                     ELSE << RMean(eps), o.p[2], Float(0), o.p[1] >>] :
                 o \in polyfit_line(tau, gam)}
        ELSE {[error |-> "none", c |-> None]}

\* get_elastic_strain, lines 175-197
get_elastic_strain(td, ind, compliance) ==
    LET anisotropic == Len(compliance) = 5
        sig == window(td.sig, ind[1], ind[2])
        tau == window(td.tau, ind[1], ind[2])
    IN  [eps_el |->
           [k \in 1..Len(sig) |->
              IF anisotropic
              THEN RAdd(RMul(sig[k], compliance[3]), RMul(tau[k], compliance[5]))
              ELSE RMul(sig[k], compliance[3])],
         gam_el |->
           [k \in 1..Len(sig) |->
              IF anisotropic
              THEN RAdd(RMul(tau[k], compliance[4]), RMul(sig[k], compliance[5]))
              ELSE RMul(tau[k], compliance[4])]]

\* get_yield_point, line 229: np.argmax rejects an empty array
get_yield_point_error(ind) ==
    IF ind[2] <= ind[1] THEN "ValueError" ELSE "none"

\* lines 227-235: i_zero_ep and d_ep_vm
plastic_strain_change(td, ind, compliance, dvm_ep0) ==
    LET n == ind[2] - ind[1]
        sig == window(td.sig, ind[1], ind[2])
        tau == window(td.tau, ind[1], ind[2])
        eps == window(td.eps, ind[1], ind[2])
        gam == window(td.gam, ind[1], ind[2])
        delta_svm == [k \in 1..n |->
                        vm_vm(RSub(sig[k], sig[1]), RSub(tau[k], tau[1]))]
    IN  Only({Only({[i_zero_ep |-> z,
                     d_ep_vm |->
                        [k \in 1..n |->
                            vm_evm(RSub(pl[1][k], pl[1][z + 1]),
                                   RSub(pl[2][k], pl[2][z + 1]))] \o << >>] :
                       pl \in {Only({<< [k \in 1..n |->
                                           RSub(eps[k], el.eps_el[k])] \o << >>,
                                        [k \in 1..n |->
                                           RSub(gam[k], el.gam_el[k])] \o << >> >> :
                                  el \in {get_elastic_strain(td, ind,
                                                             compliance)}})}}) :
                 z \in {np_argmax_gt(delta_svm, dvm_ep0)}})

\* line 242: the interpolation of one channel
interpolate_upper(arr, i0, i1, interp_coeff) == py_get(arr, i1)

interpolate(arr, i0, i1, interp_coeff) ==
    RAdd(py_get(arr, i0), RMul(RSub(py_get(arr, i1), py_get(arr, i0)),
                               interp_coeff))

\* get_yield_point, lines 227-244, for a segment that is not empty
get_yield_point(td, ind, compliance, offset, dvm_ep0) ==
    Only({Only({Only({[i_zero_ep |-> q.i_zero_ep, i_above |-> i_above,
                       d_ep_vm |-> q.d_ep_vm, interp_coeff |-> interp_coeff,
                       i0 |-> ind[1] + i_above - 1, i1 |-> ind[1] + i_above,
                       yield_point |->
                          [key \in DOMAIN td |->
                              interpolate(td[key], ind[1] + i_above - 1,
                                          ind[1] + i_above, interp_coeff)]] :
                         interp_coeff \in
                            {RDiv(RSub(offset, py_get(q.d_ep_vm, i_above - 1)),
                                  RSub(py_get(q.d_ep_vm, i_above),
                                       py_get(q.d_ep_vm, i_above - 1)))}}) :
                   i_above \in {np_argmax_gt(PyFrom(q.d_ep_vm, q.i_zero_ep),
                                             offset) + q.i_zero_ep}}) :
             q \in {plastic_strain_change(td, ind, compliance, dvm_ep0)}})

\* get_yield, line 48
yield_info_init_short(pv) ==
    [key \in Range(yield_keys) |-> [g \in 1..(Len(pv) - 1) |-> << >>]]

yield_info_init(pv) ==
    [key \in Range(yield_keys) |-> [g \in 1..Len(pv) |-> << >>]]

\* get_yield, lines 58-63
yield_append_always(info, g, c, yp, axial, shear) ==
    [key \in DOMAIN info |->
        [info[key] EXCEPT ![g] =
            Append(@, IF key = "Emod" THEN RDiv(Float(1), c[3])
                      ELSE IF key = "Gmod" THEN RDiv(Float(1), c[4])
                      ELSE yp[key])]]

yield_append(info, g, c, yp, axial, shear) ==
    [key \in DOMAIN info |->
        IF key = "Emod"
        THEN (IF axial THEN [info[key] EXCEPT ![g] =
                                Append(@, RDiv(Float(1), c[3]))]
              ELSE info[key])
        ELSE IF key = "Gmod"
        THEN (IF shear THEN [info[key] EXCEPT ![g] =
                                Append(@, RDiv(Float(1), c[4]))]
              ELSE info[key])
        ELSE [info[key] EXCEPT ![g] = Append(@, yp[key])]]

\* get_yield, lines 53-57, for the segment [i1, i2): the outcomes
yield_cycle(td, i1, i2, a) ==
    IF i2 <= i1
    THEN {[error |-> "ValueError", c |-> None, yp |-> None,
           i1_el |-> i1, i2_el |-> i1]}
    ELSE LET sig == window(td.sig, i1, i2)
             tau == window(td.tau, i1, i2)
             delta_vm == [k \in 1..(i2 - i1) |->
                            vm_vm(RSub(sig[k], sig[1]), RSub(tau[k], tau[1]))]
         IN  Only({{[error |-> o.error, c |-> o.c,
                     yp |-> IF o.error # "none" THEN None
                            ELSE get_yield_point(td, << i1, i2 >>, o.c,
                                                 a.yield_offset, a.delta_vm[1]),
                     i1_el |-> el[1], i2_el |-> el[2]] :
                       o \in get_compliance(td, el, FALSE, a.axial, a.shear)} :
                     el \in {<< np_argmax_gt(delta_vm, a.delta_vm[1]) + i1,
                                np_argmax_gt(delta_vm, a.delta_vm[2]) + i1 >>}})

(* Inputs *)

Floats(s) == [k \in 1..Len(s) |-> Float(s[k])]

\* one cycle of a strain sawtooth between -4 and 4 for a material of
\* modulus 1 that yields at the stress 2 (test_yield with ideal_plasticity),
\* uniaxial
TdPlastic ==
    [time |-> Floats(<< 0, 1, 2, 3, 4, 5, 6, 7, 8 >>),
     eps |-> Floats(<< -4, -2, 0, 2, 4, 2, 0, -2, -4 >>),
     sig |-> Floats(<< -2, 0, 2, 2, 2, 0, -2, -2, -2 >>),
     gam |-> Floats(<< 0, 0, 0, 0, 0, 0, 0, 0, 0 >>),
     tau |-> Floats(<< 0, 0, 0, 0, 0, 0, 0, 0, 0 >>)]

\* the same with a proportional shear channel
TdProportional ==
    [TdPlastic EXCEPT
        !.gam = Floats(<< -12, -6, 0, 6, 12, 6, 0, -6, -12 >>),
        !.tau = TdPlastic.sig]

\* the same strain for a material that does not yield
TdElastic == [TdPlastic EXCEPT !.sig = TdPlastic.eps]

YieldData == {TdPlastic, TdProportional, TdElastic}

\* the groups of peaks and valleys: 1, 2 and 3 groups
YieldPvInds ==
    { << << 0, 4, 8 >> >>, << << 0, 8 >>, << 4 >> >>,
      << << 0, 8 >>, << 2 >>, << 4 >> >> }

\* test_compliance: stresses that are not proportional, strains of an
\* isotropic (eps = 1 + 2 sig, gam = tau) and of an anisotropic material
\* (eps = 1 + 2 sig + tau, gam = tau + sig)
TdIsotropic ==
    [time |-> Floats(<< 0, 1, 2, 3 >>),
     sig |-> Floats(<< 0, 1, 2, 3 >>), tau |-> Floats(<< 1, 0, 2, 1 >>),
     eps |-> Floats(<< 1, 3, 5, 7 >>), gam |-> Floats(<< 1, 0, 2, 1 >>)]

TdAnisotropic ==
    [TdIsotropic EXCEPT !.eps = Floats(<< 2, 3, 7, 8 >>),
                        !.gam = Floats(<< 1, 1, 4, 4 >>)]

\* the windows of get_compliance: all samples, two, one, none and reversed;
\* with anisotropic all or none, for which lstsq has one solution
ComplianceInds(anisotropic) ==
    IF anisotropic THEN { << 0, 4 >>, << 1, 1 >> }
    ELSE { << 0, 4 >>, << 1, 3 >>, << 1, 2 >>, << 1, 1 >>, << 2, 1 >> }

\* the compliance vectors passed to get_yield_point: modulus 1 in both
\* channels, modulus 1 and 1/3, and the anisotropic form of the first
YieldCompliance(td) ==
    IF td = TdProportional
    THEN { << Float(0), Float(0), Float(1), Float(3) >> }
    ELSE { << Float(0), Float(0), Float(1), Float(1) >>,
           << Float(0), Float(0), Float(1), Float(1), Float(0) >> }

InitGetYield ==
    /\ call = "get_yield"
    /\ test_data \in YieldData
    /\ pv_inds \in YieldPvInds
    /\ \E axial \in BOOLEAN, shear \in BOOLEAN,
          delta_vm \in {<< Float(-1), Float(3) >>, << Float(-1), Float(6) >>} :
          yield_args = [yield_offset |-> Float(1), delta_vm |-> delta_vm,
                        axial |-> axial, shear |-> shear]

InitGetCompliance ==
    /\ call = "get_compliance"
    /\ test_data \in {TdIsotropic, TdAnisotropic}
    /\ pv_inds = << >>
    /\ \E anisotropic \in BOOLEAN, axial \in BOOLEAN, shear \in BOOLEAN :
       \E w \in ComplianceInds(anisotropic) :
          yield_args = [inds |-> w, anisotropic |-> anisotropic,
                        axial |-> axial, shear |-> shear]

InitGetYieldPoint ==
    /\ call = "get_yield_point"
    /\ test_data \in YieldData
    /\ pv_inds = << >>
    /\ \E w \in {<< 0, 4 >>, << 4, 8 >>, << 0, 8 >>, << 2, 2 >>},
          c \in YieldCompliance(test_data), offset \in {1, 3},
          dvm_ep0 \in {-1, 1} :
          yield_args = [inds |-> w, compliance |-> c,
                        offset |-> Float(offset), dvm_ep0 |-> Float(dvm_ep0)]

InitYield ==
    /\ InitGetYield \/ InitGetCompliance \/ InitGetYieldPoint
    /\ pc = "call"
    /\ yield_info = << >> /\ iseg = 0 /\ icyc = 0 /\ yp_return = << >>
    /\ yield_log = << >>
    /\ IdleCycle /\ IdleSmooth /\ IdleSpline /\ IdleGlobal /\ IdleMinimize

\* what a step of yield_point.py leaves alone
YieldFrame ==
    UNCHANGED <<call, test_data, num_per_cycle, num_ind_skip, min_change,
                change_fun, pv_inds, ch_ind, i_old, i_ind, icycle, not_done,
                evals, qty, segment_data, smoothVars, splineVars, globalVars,
                minimizeVars, yield_args>>

(* Steps *)

\* get_compliance, lines 109-153
GetCompliance ==
    /\ call = "get_compliance" /\ pc = "call"
    /\ \E o \in get_compliance(test_data, yield_args.inds,
                               yield_args.anisotropic, yield_args.axial,
                               yield_args.shear) :
          /\ error' = o.error
          /\ yp_return' = o.c
          /\ pc' = IF o.error = "none" THEN "done" ELSE "raised"
    /\ UNCHANGED <<inds1, inds2, yield_info, iseg, icyc, yield_log>>
    /\ YieldFrame

\* get_yield_point, lines 227-244
GetYieldPoint ==
    /\ call = "get_yield_point" /\ pc = "call"
    /\ IF get_yield_point_error(yield_args.inds) # "none"
       THEN /\ error' = get_yield_point_error(yield_args.inds)
            /\ pc' = "raised"
            /\ UNCHANGED <<yp_return, yield_log>>
       ELSE \E r \in {get_yield_point(test_data, yield_args.inds,
                                      yield_args.compliance, yield_args.offset,
                                      yield_args.dvm_ep0)} :
               /\ yp_return' = r.yield_point
               /\ yield_log' = << [i1 |-> yield_args.inds[1],
                                   i2 |-> yield_args.inds[2],
                                   i_zero_ep |-> r.i_zero_ep,
                                   i_above |-> r.i_above,
                                   d_ep_vm |-> r.d_ep_vm,
                                   interp_coeff |-> r.interp_coeff,
                                   i0 |-> r.i0, i1y |-> r.i1] >>
               /\ pc' = "done"
               /\ UNCHANGED error
    /\ UNCHANGED <<inds1, inds2, yield_info, iseg, icyc>>
    /\ YieldFrame

\* get_yield, lines 45-50
GetYieldSetup ==
    /\ call = "get_yield" /\ pc = "call"
    /\ yield_info' = yield_info_init(pv_inds)
    /\ inds2' = get_segments_inds2(pv_inds)
    /\ inds1' = get_segments_inds1(pv_inds)
    /\ iseg' = 0 /\ icyc' = 0
    /\ pc' = "segments"
    /\ UNCHANGED <<yp_return, yield_log, error>>
    /\ YieldFrame

\* the number of pairs of zip(ind1, ind2) in the segment type iseg
NumCycles(g) == Min(Len(inds1[g]), Len(inds2[g]))

\* one pass of the inner loop, lines 52-63
GetYieldCycle ==
    /\ pc = "segments" /\ iseg < Min(Len(inds1), Len(inds2))
    /\ icyc < NumCycles(iseg + 1)
    /\ \E o \in yield_cycle(test_data, inds1[iseg + 1][icyc + 1],
                            inds2[iseg + 1][icyc + 1], yield_args) :
          /\ yield_log' =
                Append(yield_log,
                       [iseg |-> iseg, i1 |-> inds1[iseg + 1][icyc + 1],
                        i2 |-> inds2[iseg + 1][icyc + 1],
                        i1_el |-> o.i1_el, i2_el |-> o.i2_el,
                        error |-> o.error,
                        i_above |-> IF o.error = "none" THEN o.yp.i_above
                                    ELSE 0,
                        d_ep_vm |-> IF o.error = "none" THEN o.yp.d_ep_vm
                                    ELSE << >>,
                        interp_coeff |-> IF o.error = "none"
                                         THEN o.yp.interp_coeff ELSE nan,
                        i0 |-> IF o.error = "none" THEN o.yp.i0 ELSE 0,
                        i1y |-> IF o.error = "none" THEN o.yp.i1 ELSE 0])
          /\ IF o.error = "none"
             THEN /\ yield_info' =
                        yield_append(yield_info, iseg + 1, o.c,
                                     o.yp.yield_point, yield_args.axial,
                                     yield_args.shear)
                  /\ icyc' = icyc + 1
                  /\ UNCHANGED <<pc, error>>
             ELSE /\ error' = o.error
                  /\ pc' = "raised"
                  /\ UNCHANGED <<yield_info, icyc>>
    /\ UNCHANGED <<inds1, inds2, iseg, yp_return>>
    /\ YieldFrame

\* the end of a pass of the outer loop, lines 65-68
GetYieldSegment ==
    /\ pc = "segments" /\ iseg < Min(Len(inds1), Len(inds2))
    /\ icyc = NumCycles(iseg + 1)
    /\ iseg' = iseg + 1
    /\ icyc' = 0
    /\ UNCHANGED <<inds1, inds2, yield_info, yp_return, yield_log, pc, error>>
    /\ YieldFrame

\* line 70
GetYieldReturn ==
    /\ pc = "segments" /\ iseg = Min(Len(inds1), Len(inds2))
    /\ pc' = "done"
    /\ UNCHANGED <<inds1, inds2, yield_info, iseg, icyc, yp_return, yield_log,
                   error>>
    /\ YieldFrame

NextYield ==
    \/ GetCompliance
    \/ GetYieldPoint
    \/ GetYieldSetup
    \/ GetYieldCycle
    \/ GetYieldSegment
    \/ GetYieldReturn

SpecYield == InitYield /\ [][NextYield]_vars

----------------------------------------------------------------------------
(* Claims about yield_point.py *)

ComplianceCall == call = "get_compliance" /\ pc \in {"done", "raised"}

\* the configurations get_compliance must reject
Rejected(a) ==
    \/ a.anisotropic /\ ~(a.axial /\ a.shear)
    \/ ~(a.axial \/ a.shear)

\* the stress samples of the channel a single-channel fit uses
FittedStress(a) ==
    window(IF a.axial THEN test_data.sig ELSE test_data.tau,
           a.inds[1], a.inds[2])

\* C17: get_compliance raises ValueError and returns nothing when
\* anisotropic comes without both axial and shear and when neither axial
\* nor shear is set.  What it returns otherwise has 5 entries with
\* anisotropic and 4 without, and a single-channel fit reports 0 as the
\* compliance of the other channel.  In an accepted configuration only the
\* fit can fail: on a window without samples or on stresses that are all 0.
C17_ComplianceShape ==
    ComplianceCall =>
        /\ Rejected(yield_args) =>
              pc = "raised" /\ error = "ValueError" /\ yp_return = None
        /\ pc = "done" =>
              /\ Len(yp_return) = IF yield_args.anisotropic THEN 5 ELSE 4
              /\ ~yield_args.shear => yp_return[4] = Float(0)
              /\ ~yield_args.axial => yp_return[3] = Float(0)
        /\ ~Rejected(yield_args) /\ pc = "raised" =>
              \/ yield_args.inds[2] <= yield_args.inds[1]
              \/ /\ ~(yield_args.axial /\ yield_args.shear)
                 /\ \A k \in 1..Len(FittedStress(yield_args)) :
                       FittedStress(yield_args)[k] = Float(0)

C17_Witness ==
    /\ call = "get_compliance" /\ pc = "done"
    /\ yield_args.axial /\ ~yield_args.shear /\ ~yield_args.anisotropic
    /\ yield_args.inds = << 0, 4 >>
    /\ Len(yp_return) = 4 /\ yp_return[4] = Float(0)
    /\ yp_return[3] = Float(2)

C17_WitnessAnisotropic ==
    /\ call = "get_compliance" /\ pc = "done" /\ yield_args.anisotropic
    /\ Len(yp_return) = 5

C17_WitnessRejected ==
    /\ call = "get_compliance" /\ pc = "raised"
    /\ ~yield_args.axial /\ ~yield_args.shear /\ ~yield_args.anisotropic

YieldPointCall == call = "get_yield_point" /\ pc \in {"done", "raised"}

\* the effective plastic strain change is above offset nowhere in the
\* segment
NeverExceeds ==
    \/ yield_log = << >>
    \/ \A k \in 1..Len(yield_log[1].d_ep_vm) :
          ~RLt(yield_args.offset, yield_log[1].d_ep_vm[k])

\* C18: if the effective plastic strain never exceeds the offset within
\* the segment, get_yield_point fails and returns no interpolated values.
C18_AsStated ==
    YieldPointCall /\ NeverExceeds => pc = "raised" /\ yp_return = << >>

\* what the code does instead: it takes np.argmax's 0 for the crossing and
\* interpolates between the sample before the segment (the last sample of
\* the array for a segment that starts at 0) and the first one
C18_ReturnsWithoutCrossing ==
    YieldPointCall /\ NeverExceeds /\ yield_log # << >> =>
        /\ pc = "done"
        /\ yield_log[1].i_above = yield_log[1].i_zero_ep
        /\ yield_log[1].i0 = yield_args.inds[1] + yield_log[1].i_zero_ep - 1

C18_OnlyEmptySegmentRaises ==
    call = "get_yield_point" /\ pc = "raised" =>
        error = "ValueError" /\ yield_args.inds[2] <= yield_args.inds[1]

YieldDone == call = "get_yield" /\ pc = "done"

SameShape(info) ==
    /\ DOMAIN info = Range(yield_keys)
    /\ \A key \in DOMAIN info : Len(info[key]) = Len(info.Emod)
    /\ \A key \in DOMAIN info : \A g \in 1..Len(info.Emod) :
          Len(info[key][g]) = Len(info.Emod[g])

\* C19: get_yield returns the seven keys, every key with the same number of
\* segment types and, within a segment type, arrays of the same length,
\* for every combination of axial and shear.
C19_AsStated == YieldDone => SameShape(yield_info)

\* the number of segments of the segment type g, from pv_inds
SegmentsOfType(g) ==
    IF g < Len(pv_inds) THEN Min(Len(pv_inds[g]), Len(pv_inds[g + 1]))
    ELSE Min(Len(pv_inds[g]), Len(pv_inds[1]) - 1)

\* C19 as the code has it: the seven keys with the same number of segment
\* types; the arrays of eps, sig, gam, tau and time hold one value per
\* segment, the arrays of Emod only with axial and those of Gmod only with
\* shear, and are empty otherwise; with neither flag no result is returned
\* when there is a segment.
C19_ShapeByFlags ==
    /\ YieldDone =>
          /\ DOMAIN yield_info = Range(yield_keys)
          /\ \A key \in DOMAIN yield_info :
                /\ Len(yield_info[key]) = Len(yield_info.Emod)
                /\ \A g \in 1..Len(yield_info[key]) :
                      Len(yield_info[key][g]) =
                          IF \/ key = "Emod" /\ ~yield_args.axial
                             \/ key = "Gmod" /\ ~yield_args.shear
                          THEN 0 ELSE Len(yield_info.time[g])
          /\ yield_args.axial /\ yield_args.shear => SameShape(yield_info)
          /\ yield_args.axial \/ yield_args.shear
    /\ call = "get_yield" /\ pc = "raised"
       /\ ~(yield_args.axial \/ yield_args.shear) => error = "ValueError"

C19_Witness ==
    /\ YieldDone /\ ~yield_args.axial /\ yield_args.shear
    /\ Len(yield_info.Emod) = 2
    /\ \A g \in 1..2 :
          /\ Len(yield_info.Emod[g]) = 0
          /\ Len(yield_info.Gmod[g]) = 1 /\ Len(yield_info.sig[g]) = 1

C19_WitnessBoth ==
    /\ YieldDone /\ yield_args.axial /\ yield_args.shear
    /\ Len(yield_info.Emod) = 2 /\ Len(yield_info.Emod[1]) = 1

\* C20: for K groups of boundaries get_yield maps each key to K - 1 arrays,
\* each with one value per cycle of its segment type.
C20_AsStated ==
    YieldDone =>
        \A key \in DOMAIN yield_info :
            /\ Len(yield_info[key]) = Len(pv_inds) - 1
            /\ \A g \in 1..Len(yield_info[key]) :
                  Len(yield_info[key][g]) = SegmentsOfType(g)

\* C20 as the code has it: K arrays per key, the last one for the segments
\* from the last group to the next boundary of the first group; the arrays
\* of eps, sig, gam, tau and time hold one value per segment of their type,
\* and so do those of Emod with axial and of Gmod with shear.
C20_OneArrayPerGroup ==
    YieldDone =>
        \A key \in DOMAIN yield_info :
            /\ Len(yield_info[key]) = Len(pv_inds)
            /\ \A g \in 1..Len(pv_inds) :
                  \/ key = "Emod" /\ ~yield_args.axial
                  \/ key = "Gmod" /\ ~yield_args.shear
                  \/ Len(yield_info[key][g]) = SegmentsOfType(g)

C20_Witness ==
    /\ YieldDone /\ Len(pv_inds) = 3
    /\ yield_args.axial /\ yield_args.shear
    /\ \A key \in DOMAIN yield_info :
          /\ Len(yield_info[key]) = 3
          /\ \A g \in 1..3 : Len(yield_info[key][g]) = 1

C20_WitnessOneGroup ==
    /\ YieldDone /\ Len(pv_inds) = 1
    /\ Len(yield_info.sig) = 1 /\ Len(yield_info.sig[1]) = 2

----------------------------------------------------------------------------
(* global_filter.py: get_fit_matrix *)

\* Times, knot fractions and matrix entries are the exact rationals of
\* minimize.  The matrix is the sequence of its columns.

RECURSIVE RPow(_, _)
RPow(x, n) == IF n = 0 THEN Float(1) ELSE RMul(x, RPow(x, n - 1))

\* lines 113-116: knots is a number (np.linspace(0, 1, knots+2)[1:-1]) or a
\* list of fractions
get_t_knots(knots) ==
    IF knots.int THEN [i \in 1..knots.n |-> Rat(i, knots.n + 1)]
    ELSE knots.list

\* _macaulay, lines 150-154, of time - t1
_macaulay(time, t1) ==
    [k \in 1..Len(time) |->
        IF RLt(Float(0), RSub(time[k], t1)) THEN RSub(time[k], t1)
        ELSE Float(0)]

\* lines 133 and 142: fit_matrix[i_start:, f_col] = 1.0 on a column of zeros
step_from(rows, i_start) ==
    [k \in 1..rows |-> IF k - 1 >= i_start THEN Float(1) ELSE Float(0)]

\* lines 124-126: column j of the fixed polynomial part
fixed_column(time, j) ==
    IF j = 0 THEN [k \in 1..Len(time) |-> Float(1)]
    ELSE [k \in 1..Len(time) |->
             RPow(RDiv(RSub(time[k], time[1]),
                       RSub(time[Len(time)], time[1])), j)]

\* lines 129-136: the columns j = cycle_order..knot_order of the cycle from t1
cycle_columns(time, t1, knot_order, cycle_order) ==
    LET t_scale == _macaulay(time, t1)
    IN  [n \in 1..(knot_order + 1 - cycle_order) |->
            LET j == cycle_order + n - 1
            IN  IF j = 0
                THEN step_from(Len(time), np_argmax_gt(t_scale, Float(0)))
                ELSE [k \in 1..Len(time) |-> RPow(t_scale[k], j)]]

\* lines 138-145: the columns of the knots of the cycle from t1 to t2
knot_columns(time, t1, t2, t_knots, knot_order) ==
    [m \in 1..Len(t_knots) |->
        LET t_knot == t_knots[m]
            t_k == RAdd(t1, RMul(RSub(t2, t1), t_knot))
        IN  IF knot_order = 0
            THEN step_from(Len(time), np_argmax_gt(time, t_knot))
            ELSE LET mac == _macaulay(time, t_k)
                 IN  [k \in 1..Len(time) |-> RPow(mac[k], knot_order)]]

\* lines 128-145: the columns of the cycles from the c-th on
RECURSIVE cycles_from(_, _, _, _, _, _)
cycles_from(c, time, cycle_times, t_knots, knot_order, cycle_order) ==
    IF c >= Len(cycle_times) THEN << >>
    ELSE cycle_columns(time, cycle_times[c], knot_order, cycle_order)
         \o knot_columns(time, cycle_times[c], cycle_times[c + 1], t_knots,
                         knot_order)
         \o cycles_from(c + 1, time, cycle_times, t_knots, knot_order,
                        cycle_order)

\* what get_fit_matrix raises: the assertion of line 111 and, on an empty
\* time, time[0] at line 125 and np.argmax of an empty array at line 132
get_fit_matrix_raises(time, cycle_times, knot_order, cycle_order) ==
    IF get_fit_matrix_error(knot_order, cycle_order) # "none"
    THEN get_fit_matrix_error(knot_order, cycle_order)
    ELSE IF Len(time) = 0 /\ cycle_order >= 2 THEN "IndexError"
    ELSE IF Len(time) = 0 /\ cycle_order = 0 /\ Len(cycle_times) >= 2
    THEN "ValueError"
    ELSE "none"

\* lines 113-147, for a non-empty cycle_times
get_fit_matrix(time, cycle_times, knots, knot_order, cycle_order) ==
    [j \in 1..cycle_order |-> fixed_column(time, j - 1)]
    \o cycles_from(1, time, cycle_times, get_t_knots(knots), knot_order,
                   cycle_order)

----------------------------------------------------------------------------
(* Inputs of get_fit_matrix *)

FitTimes == {[i \in 1..n |-> Float(i - 1)] : n \in 0..MaxT}
FitCycleTimes ==
    {Floats(s) : s \in {<< 0 >>, << 0, 2 >>, << 0, 2, 4 >>, << 1, 3 >>,
                        << 0, 3, 5 >>}}
FitKnots ==
    {[int |-> TRUE, n |-> n, list |-> << >>] : n \in 0..MaxKnots}
    \cup {[int |-> FALSE, n |-> 0, list |-> << Rat(1, 4) >>]}

InitFitMatrix ==
    /\ call = "get_fit_matrix" /\ pc = "call" /\ error = "none"
    /\ \E time \in FitTimes, ct \in FitCycleTimes, knots \in FitKnots,
          orders \in (0..MaxDegree) \X (0..MaxDegree) :
          smooth_data_args =
              [time |-> time, cycle_times |-> ct, knots |-> knots,
               knot_order |-> orders[1], cycle_order |-> orders[2]]
    /\ data = << >> /\ sdata = << >> /\ views = {} /\ fit_matrix = << >>
    /\ _keys = << >> /\ ikey = 0
    /\ test_data = << >> /\ pv_inds = << >>
    /\ num_per_cycle = 0 /\ num_ind_skip = 0 /\ min_change = 0
    /\ change_fun = "none" /\ qty = << >>
    /\ ch_ind = << >> /\ i_old = 0 /\ i_ind = 0 /\ icycle = 0
    /\ not_done = FALSE /\ evals = << >>
    /\ inds1 = << >> /\ inds2 = << >> /\ segment_data = << >>
    /\ IdleSmooth /\ IdleSpline /\ IdleMinimize /\ IdleYield

\* lines 111-147
GetFitMatrix ==
    /\ call = "get_fit_matrix" /\ pc = "call"
    /\ \E a \in {smooth_data_args} :
       \E e \in {get_fit_matrix_raises(a.time, a.cycle_times, a.knot_order,
                                       a.cycle_order)} :
          IF e # "none"
          THEN error' = e /\ pc' = "raised" /\ UNCHANGED fit_matrix
          ELSE /\ fit_matrix' =
                      get_fit_matrix(a.time, a.cycle_times, a.knots,
                                     a.knot_order, a.cycle_order)
               /\ pc' = "done" /\ UNCHANGED error
    /\ UNCHANGED <<data, sdata, views, _keys, ikey>>
    /\ SmoothDataFrame

NextFitMatrix == GetFitMatrix

SpecFitMatrix == InitFitMatrix /\ [][NextFitMatrix]_vars

----------------------------------------------------------------------------
(* Claims about get_fit_matrix *)

FitMatrixDone == call = "get_fit_matrix" /\ pc = "done"
FitCycles == 1..(Len(smooth_data_args.cycle_times) - 1)
FitKnotCount == Len(get_t_knots(smooth_data_args.knots))

\* the column that is 1 exactly at the samples with time > t
StepAfter(t) ==
    [k \in 1..Len(smooth_data_args.time) |->
        IF RLt(t, smooth_data_args.time[k]) THEN Float(1) ELSE Float(0)]

\* with cycle_order = 0, the index of the j = 0 column of the c-th cycle
CycleStepColumn(c) ==
    (c - 1) * (1 + smooth_data_args.knot_order + FitKnotCount) + 1

SomeSampleAfter(t) ==
    \E k \in 1..Len(smooth_data_args.time) : RLt(t, smooth_data_args.time[k])

\* C21 as stated: with cycle_order = 0, the j = 0 column of the cycle that
\* starts at t1 is 1 exactly at the samples with time > t1, for every t1,
\* also one that no sample time exceeds (all zero then).
C21_AsStated ==
    FitMatrixDone /\ smooth_data_args.cycle_order = 0 =>
        \A c \in FitCycles :
            fit_matrix[CycleStepColumn(c)]
                = StepAfter(smooth_data_args.cycle_times[c])

\* What holds of the code: the column is that step when some sample time
\* exceeds t1, and constant 1 when none does.
C21_StepOrConstant ==
    FitMatrixDone /\ smooth_data_args.cycle_order = 0 =>
        \A c \in FitCycles :
            fit_matrix[CycleStepColumn(c)]
                = IF SomeSampleAfter(smooth_data_args.cycle_times[c])
                  THEN StepAfter(smooth_data_args.cycle_times[c])
                  ELSE [k \in 1..Len(smooth_data_args.time) |-> Float(1)]

C21_WitnessNoSampleAfter ==
    /\ FitMatrixDone /\ smooth_data_args.cycle_order = 0
    /\ \E c \in FitCycles :
          /\ ~SomeSampleAfter(smooth_data_args.cycle_times[c])
          /\ Len(smooth_data_args.time) > 0

\* with knot_order = 0, the index of the column of the m-th knot of the c-th
\* cycle
KnotStepColumn(c, m) == (c - 1) * (1 + FitKnotCount) + 1 + m

\* the absolute time of the knot with fraction f in the c-th cycle
KnotTime(c, f) ==
    RAdd(smooth_data_args.cycle_times[c],
         RMul(RSub(smooth_data_args.cycle_times[c + 1],
                   smooth_data_args.cycle_times[c]), f))

\* C22 as stated: with knot_order = 0, the column of the knot with fraction
\* f in the cycle [t1, t2) is 1 exactly at the samples with
\* time > t1 + (t2 - t1) * f.
C22_AsStated ==
    FitMatrixDone /\ smooth_data_args.knot_order = 0 =>
        \A c \in FitCycles, m \in 1..FitKnotCount :
            fit_matrix[KnotStepColumn(c, m)]
                = StepAfter(KnotTime(c, get_t_knots(smooth_data_args.knots)[m]))

\* What holds of the code: the step is placed at the fraction f itself, the
\* same in every cycle, and the column is constant 1 when no sample time
\* exceeds f.
C22_StepAtFraction ==
    FitMatrixDone /\ smooth_data_args.knot_order = 0 =>
        \A c \in FitCycles, m \in 1..FitKnotCount :
            fit_matrix[KnotStepColumn(c, m)]
                = IF SomeSampleAfter(get_t_knots(smooth_data_args.knots)[m])
                  THEN StepAfter(get_t_knots(smooth_data_args.knots)[m])
                  ELSE [k \in 1..Len(smooth_data_args.time) |-> Float(1)]

C22_WitnessKnotStep ==
    /\ FitMatrixDone /\ smooth_data_args.knot_order = 0
    /\ FitCycles # {} /\ FitKnotCount > 0
    /\ Len(smooth_data_args.time) > 2

----------------------------------------------------------------------------
(* Claims about the step size of minimize *)

\* err_save[n + 2] is the total error of iteration n, err_save[1] that of t0.
\* The iterations n >= 1 so far whose error is greater than that of the
\* iteration before
ErrorIncreases ==
    {n \in 1..(Len(err_save) - 2) : RLt(err_save[n + 1], err_save[n + 2])}

C23_State ==
    pc \in {"loop", "break", "done"} =>
        dt_change = RDiv(minimize_args.dt_init,
                         Float(Power(2, Cardinality(ErrorIncreases))))

C23_Step ==
    /\ pc \in {"loop", "break"} => ~RLt(dt_change, dt_change')
    /\ Len(err_save') = Len(err_save) => dt_change' = dt_change
    /\ pc = "loop" /\ Len(err_save') > Len(err_save) =>
          dt_change' =
              IF n_iter >= 1
                 /\ RLt(err_save[Len(err_save)], err_save'[Len(err_save')])
              THEN RDiv(dt_change, Float(2))
              ELSE dt_change

\* C23: dt_change is halved after exactly the iterations n >= 1 whose total
\* error is greater than that of the previous iteration and is unchanged by
\* every other step: it is never halved after iteration 0, it never
\* increases, and it is dt_init divided by two to the number of such
\* iterations.
C23_HalvedOnErrorIncrease == []C23_State /\ [][C23_Step]_vars

\* the error rose in iteration 0 without a halving, and a later iteration
\* halved the step
C23_Witness ==
    /\ pc \in {"loop", "break", "done"} /\ Len(err_save) >= 4
    /\ RLt(err_save[1], err_save[2])
    /\ ErrorIncreases # {}
    /\ \E n \in 1..(Len(err_save) - 2) : n \notin ErrorIncreases
    /\ RLt(dt_change, minimize_args.dt_init)

----------------------------------------------------------------------------
(* global_filter.py: _update_mat called on its own *)

\* The matrices of the call have one coordinate.  Rows 0..2 are drawn from
\* small finite values; row 3 is dropped by the shift of lines 211-213.
UpdateOffsets == {0, 1, 3}
UpdateErrors == {0, 1, 4}

UpdateMatrix(S) ==
    {<< << Float(r[1]) >>, << Float(r[2]) >>, << Float(r[3]) >>,
        << Float(0) >> >> : r \in S \X S \X S}

InitUpdateMat ==
    /\ call = "_update_mat" /\ pc = "call"
    /\ dt_mat \in UpdateMatrix(UpdateOffsets)
    /\ fe_mat \in UpdateMatrix(UpdateErrors)
    /\ dt_change \in {Float(1), Rat(1, 2)}
    /\ n_iter \in 0..3
    /\ minimize_args = [dt_mat |-> dt_mat, fe_mat |-> fe_mat,
                        dt_change |-> dt_change, dt_max |-> Float(2),
                        n_iter |-> n_iter]
    /\ err_save = << >> /\ opt_cycle_time = << >>
    /\ test_data = << >> /\ pv_inds = << >>
    /\ IdleCycle /\ IdleSmooth /\ IdleSpline /\ IdleGlobal /\ IdleYield

\* _update_mat, lines 211-234: dt_mat and fe_mat are changed in place
UpdateMat ==
    /\ call = "_update_mat" /\ pc = "call"
    /\ \E u \in {_update_mat(dt_mat, fe_mat, dt_change, minimize_args.dt_max,
                            n_iter)} :
          dt_mat' = u.dt_mat /\ fe_mat' = u.fe_mat
    /\ pc' = "done"
    /\ UNCHANGED <<minimize_args, dt_change, n_iter, err_save,
                   opt_cycle_time, error>>
    /\ MinimizeFrame

NextUpdateMat == UpdateMat

SpecUpdateMat == InitUpdateMat /\ [][NextUpdateMat]_vars

----------------------------------------------------------------------------
(* Claims about _update_mat *)

UpdateDone == call = "_update_mat" /\ pc = "done"
Coordinates == 1..Len(minimize_args.dt_mat[1])

\* the two most recent iterates of coordinate i, as they were passed
RecentOffset(i) == minimize_args.dt_mat[1][i]
PreviousOffset(i) == minimize_args.dt_mat[2][i]
RecentError(i) == minimize_args.fe_mat[1][i]
PreviousError(i) == minimize_args.fe_mat[2][i]

\* (fe[0] - fe[1]) / (dt[0] - dt[1])
Gradient(i) ==
    RDiv(RSub(RecentError(i), PreviousError(i)),
         RSub(RecentOffset(i), PreviousOffset(i)))

\* dt_change times k
Steps(k) == RMul(Float(k), minimize_args.dt_change)

\* C24 as stated: at n_iter = 1 every coordinate whose two most recent
\* offsets differ moves against the sign of the empirical gradient: by
\* dt_change when the gradient is negative, by 2 * dt_change when it is
\* positive.
C24_AsStated ==
    UpdateDone /\ n_iter = 1 =>
        \A i \in Coordinates :
            RecentOffset(i) # PreviousOffset(i) =>
                /\ RLt(Gradient(i), Float(0)) =>
                      dt_mat[1][i] = RAdd(RecentOffset(i), Steps(1))
                /\ RLt(Float(0), Gradient(i)) =>
                      dt_mat[1][i] = RAdd(RecentOffset(i), Steps(-2))

\* What holds of the code: the direction is taken from the errors alone,
\* forwards by dt_change when the most recent error is the lower one and
\* backwards by 2 * dt_change otherwise, so the move is against the
\* gradient when the most recent offset is the greater one.
C24_ByErrorDifference ==
    UpdateDone /\ n_iter = 1 =>
        \A i \in Coordinates :
            /\ dt_mat[1][i] =
                  RAdd(RecentOffset(i),
                       IF RLt(RecentError(i), PreviousError(i))
                       THEN Steps(1) ELSE Steps(-2))
            /\ RLt(PreviousOffset(i), RecentOffset(i)) =>
                  /\ RLt(Gradient(i), Float(0)) =>
                        dt_mat[1][i] = RAdd(RecentOffset(i), Steps(1))
                  /\ RLt(Float(0), Gradient(i)) =>
                        dt_mat[1][i] = RAdd(RecentOffset(i), Steps(-2))

\* the most recent offset is the smaller one and the error fell with it
C24_WitnessBackwards ==
    /\ UpdateDone /\ n_iter = 1
    /\ \E i \in Coordinates :
          /\ RLt(RecentOffset(i), PreviousOffset(i))
          /\ RLt(Float(0), Gradient(i))

\* the quadratic fitted to the three most recent iterates of coordinate i
FittedQuadratic(i) ==
    lstsq_quadratic(<< minimize_args.dt_mat[1][i], minimize_args.dt_mat[2][i],
                       minimize_args.dt_mat[3][i] >>,
                    << minimize_args.fe_mat[1][i], minimize_args.fe_mat[2][i],
                       minimize_args.fe_mat[3][i] >>)

\* k2 < 0, or the vertex -k1 / (2 k2) is farther than dt_max from zero
ConcaveOrTooFar(i) ==
    \E k \in {FittedQuadratic(i)} :
        \/ RLt(k[3], Float(0))
        \/ RLt(minimize_args.dt_max,
               RAbs(RDiv(RNeg(k[2]), RMul(Float(2), k[3]))))

\* sign(-g): 1, 0 or -1
SignOfDescent(g) == IF g = nan THEN 0 ELSE -Sign(g[1])

\* C25 as stated: at n_iter >= 2 every coordinate whose fitted quadratic is
\* concave or whose vertex is farther than dt_max from zero gets the most
\* recent offset plus dt_change times sign(-gradient).
C25_AsStated ==
    UpdateDone /\ n_iter >= 2 =>
        \A i \in Coordinates :
            ConcaveOrTooFar(i) /\ RecentOffset(i) # PreviousOffset(i) =>
                dt_mat[1][i] =
                    RAdd(RecentOffset(i), Steps(SignOfDescent(Gradient(i))))

\* What holds of the code: with a negative gradient the step of dt_change
\* is taken forwards from the most recent offset; otherwise it is taken
\* backwards from the offset before the most recent one.
C25_StepFromEitherOffset ==
    UpdateDone /\ n_iter >= 2 =>
        \A i \in Coordinates :
            ConcaveOrTooFar(i) =>
                dt_mat[1][i] =
                    IF RLt(Gradient(i), Float(0))
                    THEN RAdd(RecentOffset(i), Steps(1))
                    ELSE RAdd(PreviousOffset(i), Steps(-1))

\* a concave fit with a positive gradient between two different offsets
C25_WitnessPositiveGradient ==
    /\ UpdateDone /\ n_iter >= 2
    /\ \E i \in Coordinates :
          /\ RLt(FittedQuadratic(i)[3], Float(0))
          /\ RLt(Float(0), Gradient(i))
          /\ RecentOffset(i) # PreviousOffset(i)

----------------------------------------------------------------------------
(* Claims about the loop of get_pv_inds_change *)

\* the candidates that were examined, in order
Examined == [k \in 1..Len(evals) |-> evals[k].i2]

ChangeReturned ==
    call = "get_pv_inds_change" /\ pc \in {"have_pv_inds", "have_segments"}

\* C27 as stated: for every step counter, also one without a step change,
\* and every K >= 1, get_pv_inds_change never reads past the end of the
\* boundary list, and when it has returned it has examined every boundary
\* after the first exactly once, in order.
C27_AsStated ==
    /\ InChange => error = "none" /\ pc # "raised"
    /\ ChangeReturned => Examined = Tail(ch_ind)

\* What holds of the code: a call that returns has examined every boundary
\* after the first exactly once and has kept a partially filled last cycle,
\* and the call raises IndexError exactly when the boundary list is [0].
C27_ExaminedOnceOrRaised ==
    /\ InChange /\ pc = "raised" =>
          error = "IndexError" /\ Len(ch_ind) = 1 /\ evals = << >>
    /\ InChange /\ Len(ch_ind) = 1 =>
          pc \in {"while_not_done", "while_icycle", "body", "raised"}
    /\ ChangeReturned =>
          /\ Examined = Tail(ch_ind)
          /\ Len(ch_ind) >= 2
          /\ RoundRobin(pv_inds, AcceptedList, num_per_cycle)

C27_WitnessRaggedReturn ==
    /\ ChangeReturned /\ num_per_cycle = 3
    /\ Len(pv_inds[1]) = 2 /\ Len(pv_inds[3]) = 1

----------------------------------------------------------------------------
(* Claims about the slices of smoothen *)

\* two calls in a row are for the same slice or for the next one, which
\* starts where the one before ended
ConsecutiveSlices ==
    \A n \in 1..(Len(filter_calls) - 1) :
        \/ /\ filter_calls[n + 1].i0 = filter_calls[n].i0
           /\ filter_calls[n + 1].i1 = filter_calls[n].i1
        \/ filter_calls[n + 1].i0 = filter_calls[n].i1

\* C28 as stated: every slice [start, end) handed to a filter function is
\* non-empty, and the slices are consecutive and do not overlap, also for
\* boundary groups that contain index 0 as get_pv_inds returns them with
\* num_ind_skip = 0.
C28_AsStated ==
    call = "smoothen" =>
        /\ \A n \in 1..Len(filter_calls) :
              filter_calls[n].i0 < filter_calls[n].i1
        /\ ConsecutiveSlices

\* What holds of the code: the slices are consecutive and start at 0, and
\* the only empty slice is [0, 0), which is handed to the filter first
\* exactly when the boundary groups contain index 0.
C28_EmptySliceAtZero ==
    call = "smoothen" =>
        /\ ConsecutiveSlices
        /\ \A n \in 1..Len(filter_calls) :
              \/ filter_calls[n].i0 < filter_calls[n].i1
              \/ /\ filter_calls[n].i0 = 0 /\ filter_calls[n].i1 = 0
                 /\ 0 \in Range(Flatten(pv_inds))
        /\ filter_calls # << >> =>
              /\ filter_calls[1].i0 = 0
              /\ 0 \in Range(Flatten(pv_inds)) /\ Len(Flatten(pv_inds)) > 1
                    => filter_calls[1].i1 = 0

C28_WitnessGroupsWithZero ==
    /\ call = "smoothen" /\ pc = "done" /\ error = "none"
    /\ 0 \in Range(Flatten(pv_inds))
    /\ Len(filter_calls) >= 2
    /\ filter_calls[1].i1 = 0

----------------------------------------------------------------------------
(* Claims about the interpolation of get_yield_point *)

YieldPointDone == call = "get_yield_point" /\ pc = "done"

\* the positions in the segment, at or after the plastic-strain zero index,
\* at which the effective plastic strain change exceeds offset
Crossings ==
    {k \in yield_log[1].i_zero_ep..(Len(yield_log[1].d_ep_vm) - 1) :
        RLt(yield_args.offset, yield_log[1].d_ep_vm[k + 1])}

\* evm[k] for a position k of the segment
Evm(k) == yield_log[1].d_ep_vm[k + 1]

\* td[key][k] for a position k of the segment
Sample(key, k) == test_data[key][yield_args.inds[1] + k + 1]

\* (offset - evm[i-1]) / (evm[i] - evm[i-1])
Fraction(i) ==
    RDiv(RSub(yield_args.offset, Evm(i - 1)), RSub(Evm(i), Evm(i - 1)))

\* C26: when the effective plastic strain change exceeds offset at or after
\* the plastic-strain zero index, get_yield_point takes the first such
\* index i and returns, for every channel of td, time included,
\* td[key][i-1] + (td[key][i] - td[key][i-1]) * (offset - evm[i-1])
\* / (evm[i] - evm[i-1]); the effective plastic strain interpolated in the
\* same way is offset.
C26_InterpolatesAllChannels ==
    YieldPointDone /\ Crossings # {} =>
        \E i \in {SetMin(Crossings)} :
            /\ i >= 1
            /\ yield_log[1].i_above = i
            /\ yield_log[1].interp_coeff = Fraction(i)
            /\ DOMAIN yp_return = DOMAIN test_data
            /\ {"time", "sig", "eps", "gam", "tau"} \subseteq DOMAIN yp_return
            /\ \A key \in DOMAIN test_data :
                  yp_return[key] =
                      RAdd(Sample(key, i - 1),
                           RMul(RSub(Sample(key, i), Sample(key, i - 1)),
                                Fraction(i)))
            /\ RAdd(Evm(i - 1), RMul(RSub(Evm(i), Evm(i - 1)), Fraction(i)))
                  = yield_args.offset

\* a segment that does not start at 0, crossed strictly between two samples
C26_Witness ==
    /\ YieldPointDone /\ Crossings # {}
    /\ yield_args.inds[1] > 0
    /\ SetMin(Crossings) >= 2
    /\ RLt(Float(0), yield_log[1].interp_coeff)
    /\ RLt(yield_log[1].interp_coeff, Float(1))
    /\ yp_return.time # Sample("time", SetMin(Crossings))
    /\ yp_return.time # Sample("time", SetMin(Crossings) - 1)

----------------------------------------------------------------------------
(* Claims about the indices get_yield and get_yield_point use *)

InGetYield == call = "get_yield" /\ pc # "call"

\* the von Mises stress change of the segment of entry n of the log
SegmentDeltaVm(n) ==
    [k \in 1..(yield_log[n].i2 - yield_log[n].i1) |->
        vm_vm(RSub(test_data.sig[yield_log[n].i1 + k],
                   test_data.sig[yield_log[n].i1 + 1]),
              RSub(test_data.tau[yield_log[n].i1 + k],
                   test_data.tau[yield_log[n].i1 + 1]))]

ExceedsDeltaVmMax(n) ==
    \E k \in 1..(yield_log[n].i2 - yield_log[n].i1) :
        RLt(yield_args.delta_vm[2], SegmentDeltaVm(n)[k])

\* C29 as stated: for every segment [i1, i2) that get_yield processes with
\* delta_vm[0] <= delta_vm[1], the elastic window passed to get_compliance
\* is non-empty and inside the segment, i1 <= i1_el < i2_el <= i2, also
\* when the von Mises stress change never exceeds delta_vm[1].
C29_AsStated ==
    InGetYield /\ ~RLt(yield_args.delta_vm[2], yield_args.delta_vm[1]) =>
        \A n \in 1..Len(yield_log) :
            /\ yield_log[n].i1 <= yield_log[n].i1_el
            /\ yield_log[n].i1_el < yield_log[n].i2_el
            /\ yield_log[n].i2_el <= yield_log[n].i2

\* What holds of the code: the window is as stated when the stress change
\* exceeds delta_vm[1] in the segment, and is the empty window [i1, i1)
\* when it does not.
C29_EmptyWindowWithoutExceeding ==
    InGetYield =>
        \A n \in 1..Len(yield_log) :
            yield_log[n].i1 < yield_log[n].i2 =>
                IF ExceedsDeltaVmMax(n)
                THEN /\ yield_log[n].i1 <= yield_log[n].i1_el
                     /\ yield_log[n].i1_el < yield_log[n].i2_el
                     /\ yield_log[n].i2_el < yield_log[n].i2
                ELSE /\ yield_log[n].i2_el = yield_log[n].i1
                     /\ yield_log[n].i1_el = yield_log[n].i1

C29_WitnessNeverExceeded ==
    /\ call = "get_yield" /\ pc = "done"
    /\ \E n \in 1..Len(yield_log) :
          /\ yield_log[n].i1 < yield_log[n].i2
          /\ ~ExceedsDeltaVmMax(n)
          /\ yield_log[n].error = "none"

\* C30 as stated: with offset >= 0 the two samples get_yield_point
\* interpolates between lie inside the segment,
\* inds[0] <= i0 < i1 < inds[1], and the interpolation fraction is in
\* [0, 1), so every returned value lies between the two sample values.
C30_AsStated ==
    YieldPointDone /\ ~RLt(yield_args.offset, Float(0)) =>
        /\ yield_args.inds[1] <= yield_log[1].i0
        /\ yield_log[1].i0 < yield_log[1].i1y
        /\ yield_log[1].i1y < yield_args.inds[2]
        /\ ~RLt(yield_log[1].interp_coeff, Float(0))
        /\ RLt(yield_log[1].interp_coeff, Float(1))
        /\ \A key \in DOMAIN yp_return :
              \E lo \in {py_get(test_data[key], yield_log[1].i0)},
                 hi \in {py_get(test_data[key], yield_log[1].i1y)} :
                    \/ ~RLt(yp_return[key], lo) /\ ~RLt(hi, yp_return[key])
                    \/ ~RLt(yp_return[key], hi) /\ ~RLt(lo, yp_return[key])

\* What holds of the code: the samples and the fraction are as stated
\* exactly when the offset is exceeded in the segment; when it is not, the
\* lower sample is the one before the plastic-strain zero index, which for
\* a zero index of 0 is outside the segment.
C30_InsideOnlyWhenCrossed ==
    YieldPointDone /\ ~RLt(yield_args.offset, Float(0)) =>
        IF Crossings # {}
        THEN /\ yield_args.inds[1] <= yield_log[1].i0
             /\ yield_log[1].i0 + 1 = yield_log[1].i1y
             /\ yield_log[1].i1y < yield_args.inds[2]
             /\ ~RLt(yield_log[1].interp_coeff, Float(0))
             /\ RLt(yield_log[1].interp_coeff, Float(1))
        ELSE /\ yield_log[1].i_above = yield_log[1].i_zero_ep
             /\ yield_log[1].i0
                   = yield_args.inds[1] + yield_log[1].i_zero_ep - 1

C30_WitnessOutside ==
    /\ YieldPointDone /\ ~RLt(yield_args.offset, Float(0))
    /\ Crossings = {}
    /\ yield_log[1].i0 < yield_args.inds[1]

====
